---------------------------- MODULE Spec2Model ----------------------------
(***************************************************************************)
(* QALX core: mesh nodes and the mesh network (core/mesh.go), the          *)
(* validation gate and key derivation (core/entropy.go), metrics and the   *)
(* LYRA modulation (core/qalx.go, core/lyra.go).                           *)
(*                                                                         *)
(* float64 values are fixed-point integers in thousandths (0.85 is 850).   *)
(* Strings are sequences of one-character strings, so that HasSuffix,      *)
(* Count and the base64 encoding are computed character by character.      *)
(***************************************************************************)
EXTENDS Integers, Sequences, FiniteSets, TLC

\* ------------------------------------------------------------------ bounds
MaxNodes == 2
MaxHist == 3
MaxPropagated == 2
NumProcs == 2
MaxKeys == 2
MaxPatterns == 2

\* --------------------------------------------------------------- constants
\* One unit of the fixed-point representation: 1.0 = 1000.
Scale == 1000
\* core/qalx.go: MinCoherence = 0.85
MinCoherence == 850
\* core/mesh.go: DefaultMeshScore = 1.0
DefaultMeshScore == 1000
\* core/mesh.go: MinPatternLength = 8
MinPatternLength == 8

\* ----------------------------------------------------------------- strings
RevokedSuffix == <<":", "r", "e", "v", "o", "k", "e", "d">>

\* strings.HasSuffix
HasSuffix(s, suffix) ==
    /\ Len(s) >= Len(suffix)
    /\ SubSeq(s, Len(s) - Len(suffix) + 1, Len(s)) = suffix

\* strings.Count for a non-empty substring: non-overlapping occurrences.
RECURSIVE CountFrom(_, _, _)
CountFrom(s, sub, i) ==
    IF i + Len(sub) - 1 > Len(s) THEN 0
    ELSE IF SubSeq(s, i, i + Len(sub) - 1) = sub
         THEN 1 + CountFrom(s, sub, i + Len(sub))
         ELSE CountFrom(s, sub, i + 1)

Count(s, sub) == CountFrom(s, sub, 1)

\* A string is the sequence of its characters; a character outside ASCII is
\* written as its code point.  "U+023A" (A with stroke) takes two bytes in
\* UTF-8 and its lower case "U+2C65" three.
UpperCase ==
    <<"A", "B", "C", "D", "E", "F", "G", "H", "I", "J", "K", "L", "M",
      "N", "O", "P", "Q", "R", "S", "T", "U", "V", "W", "X", "Y", "Z">>
LowerCase ==
    <<"a", "b", "c", "d", "e", "f", "g", "h", "i", "j", "k", "l", "m",
      "n", "o", "p", "q", "r", "s", "t", "u", "v", "w", "x", "y", "z">>

\* unicode.ToLower of one character
ToLowerChar(c) ==
    IF \E i \in 1..Len(UpperCase) : UpperCase[i] = c
    THEN LowerCase[CHOOSE i \in 1..Len(UpperCase) : UpperCase[i] = c]
    ELSE IF c = "U+023A" THEN "U+2C65"
    ELSE c

\* strings.ToLower
ToLower(s) == [i \in 1..Len(s) |-> ToLowerChar(s[i])]

\* the number of bytes of one character in UTF-8
ByteWidth(c) == IF c = "U+023A" THEN 2 ELSE IF c = "U+2C65" THEN 3 ELSE 1

\* len(s) of a Go string: its length in bytes
RECURSIVE ByteLen(_)
ByteLen(s) == IF s = <<>> THEN 0 ELSE ByteWidth(Head(s)) + ByteLen(Tail(s))

\* ------------------------------------------------- float64 and base64 coding
Pow2(n) == IF n = 0 THEN 1 ELSE LET p[i \in 0..n] == IF i = 0 THEN 1 ELSE 2 * p[i - 1] IN p[n]

\* The binary exponent e of a / Scale (a > 0): 2^e <= a / Scale < 2^(e+1).
RECURSIVE ExpUp(_, _)
ExpUp(a, e) == IF a < Scale * Pow2(e + 1) THEN e ELSE ExpUp(a, e + 1)
RECURSIVE ExpDown(_, _)
ExpDown(a, e) == IF a * Pow2(-e) >= Scale THEN e ELSE ExpDown(a, e - 1)
Exponent(a) == IF a >= Scale THEN ExpUp(a, 0) ELSE ExpDown(a, -1)

\* n as a sequence of `width` bits, most significant first.
Bits(n, width) == [i \in 1..width |-> (n \div Pow2(width - i)) % 2]

\* The 64 bits (sign, 11 exponent bits, 52 fraction bits) of the float64
\* nearest to x / Scale, rounding to nearest, ties to even.  The 52 fraction
\* bits are produced by long division, 13 bits at a time.
Float64Bits(x) ==
    IF x = 0 THEN [i \in 1..64 |-> 0]
    ELSE
    LET a == IF x < 0 THEN -x ELSE x
        e == Exponent(a)
        num == IF e >= 0 THEN a ELSE a * Pow2(-e)
        den == IF e >= 0 THEN Scale * Pow2(e) ELSE Scale
        r0 == num - den
        c1 == (r0 * 8192) \div den
        r1 == (r0 * 8192) % den
        c2 == (r1 * 8192) \div den
        r2 == (r1 * 8192) % den
        c3 == (r2 * 8192) \div den
        r3 == (r2 * 8192) % den
        c4 == (r3 * 8192) \div den
        r4 == (r3 * 8192) % den
        up == \/ 2 * r4 > den
              \/ 2 * r4 = den /\ c4 % 2 = 1
        d4 == IF up THEN c4 + 1 ELSE c4
        d3 == c3 + d4 \div 8192
        d2 == c2 + d3 \div 8192
        d1 == c1 + d2 \div 8192
        e2 == e + d1 \div 8192
    IN <<IF x < 0 THEN 1 ELSE 0>> \o Bits(e2 + 1023, 11)
       \o Bits(d1 % 8192, 13) \o Bits(d2 % 8192, 13)
       \o Bits(d3 % 8192, 13) \o Bits(d4 % 8192, 13)

\* binary.Write(buf, binary.LittleEndian, float64): the 8 bytes, lowest first,
\* each byte as its 8 bits, most significant first.
LittleEndianBits(bits) ==
    [i \in 1..64 |-> bits[(7 - ((i - 1) \div 8)) * 8 + ((i - 1) % 8) + 1]]

Base64Alphabet ==
    <<"A","B","C","D","E","F","G","H","I","J","K","L","M","N","O","P",
      "Q","R","S","T","U","V","W","X","Y","Z","a","b","c","d","e","f",
      "g","h","i","j","k","l","m","n","o","p","q","r","s","t","u","v",
      "w","x","y","z","0","1","2","3","4","5","6","7","8","9","+","/">>

\* base64.StdEncoding.EncodeToString of a bit string of whole bytes: 6 bits
\* per character, the last group zero-filled, "=" padding to a multiple of 4.
Base64Encode(bits) ==
    LET n == Len(bits)
        chars == (n + 5) \div 6
        bit(j) == IF j <= n THEN bits[j] ELSE 0
        sextet(k) == 32 * bit(6 * k - 5) + 16 * bit(6 * k - 4) + 8 * bit(6 * k - 3)
                     + 4 * bit(6 * k - 2) + 2 * bit(6 * k - 1) + bit(6 * k)
        total == 4 * ((chars + 3) \div 4)
    IN [k \in 1..total |-> IF k <= chars THEN Base64Alphabet[sextet(k) + 1] ELSE "="]

\* core/mesh.go GeneratePattern
GeneratePattern(metrics) ==
    Base64Encode(LittleEndianBits(Float64Bits(metrics.Coherence))
                 \o LittleEndianBits(Float64Bits(metrics.Phase))
                 \o LittleEndianBits(Float64Bits(metrics.Amplitude)))

\* byte(f) for a float64 f = x / Scale: the integer part when it fits a byte;
\* otherwise the result depends on the build, the low 8 bits of the integer
\* part on some, the nearest of 0 and 255 on others.
ByteOfFloat(x) ==
    LET t == IF x >= 0 THEN x \div Scale ELSE -((-x) \div Scale)
    IN IF t >= 0 /\ t <= 255 THEN {t}
       ELSE {t % 256, IF t < 0 THEN 0 ELSE 255}

\* QALX/core/mesh.go GeneratePattern, the earlier fingerprint: base64 of the
\* three bytes byte(Coherence * 100), byte(Phase * 100), byte(Amplitude * 100);
\* the set of the strings the builds can return.
OriginalGeneratePattern(metrics) ==
    {Base64Encode(Bits(c, 8) \o Bits(p, 8) \o Bits(a, 8)) :
        c \in ByteOfFloat(metrics.Coherence * 100),
        p \in ByteOfFloat(metrics.Phase * 100),
        a \in ByteOfFloat(metrics.Amplitude * 100)}

\* ------------------------------------------------------ fixed-point numbers
Abs(x) == IF x < 0 THEN -x ELSE x
Max(a, b) == IF a >= b THEN a ELSE b
Min(a, b) == IF a <= b THEN a ELSE b

\* n / d rounded to the nearest integer (d > 0).
RoundDiv(n, d) == (2 * n + d) \div (2 * d)
\* a * b and a / b of two fixed-point numbers.
Mul(a, b) == RoundDiv(a * b, Scale)
Div(a, b) == IF b > 0 THEN RoundDiv(a * Scale, b) ELSE -RoundDiv(a * Scale, -b)

\* math.Pi and core/lyra.go Phi = (1 + sqrt 5) / 2
Pi == 3142
Phi == 1618

\* math.Sin of an angle in [-Pi/2, Pi/2]: the Taylor polynomial to x^9.
SinSeries(x) ==
    LET x2 == Mul(x, x)
        x3 == Mul(x2, x)
        x5 == Mul(x3, x2)
        x7 == Mul(x5, x2)
        x9 == Mul(x7, x2)
    IN x - RoundDiv(x3, 6) + RoundDiv(x5, 120) - RoundDiv(x7, 5040) + RoundDiv(x9, 362880)

\* math.Sin of an angle given in ten-thousandths of a radian (the argument is
\* reduced modulo 2 Pi = 6.2832 before it is rounded to thousandths).
Sin10(y) ==
    LET r == y % 62832
        q == IF r > 31416 THEN r - 62832 ELSE r
        h == IF q > 15708 THEN 31416 - q ELSE IF q < -15708 THEN -31416 - q ELSE q
    IN Max(-Scale, Min(Scale, SinSeries(RoundDiv(h, 10))))

\* math.Sin(x) for a fixed-point x.
Sin(x) == Sin10(10 * x)
\* math.Sin(a * b) for fixed-point a, b: the product keeps four decimals.
SinOfProduct(a, b) == Sin10(RoundDiv(a * b, 100))
\* math.Sin(float64(d) * math.Pi / 180) for an integer number of degrees d.
SinDegrees(d) == Sin10(RoundDiv(d * 31416, 180))

\* math.Log2 of a fixed-point x > 0, to thousandths: the integer part by
\* halving or doubling into [1, 2), twelve fraction bits by repeated squaring
\* (carried out in ten-thousandths).
RECURSIVE Log2Int(_, _)
Log2Int(y, n) ==
    IF y >= 20000 THEN Log2Int(y \div 2, n + 1)
    ELSE IF y < 10000 THEN Log2Int(y * 2, n - 1)
    ELSE <<y, n>>
RECURSIVE Log2Frac(_, _, _)
Log2Frac(y, k, acc) ==
    IF k = 0 THEN acc
    ELSE LET sq == RoundDiv(y * y, 10000)
         IN IF sq >= 20000 THEN Log2Frac(sq \div 2, k - 1, 2 * acc + 1)
            ELSE Log2Frac(sq, k - 1, 2 * acc)
Log2(x) ==
    LET norm == Log2Int(10 * x, 0)
    IN norm[2] * Scale + RoundDiv(Log2Frac(norm[1], 12, 0) * Scale, 4096)

\* core/entropy.go normalize, core Normalize (unnamed/part_004)
Normalize(x, min, max) == Max(100, Min(Scale, Div(x - min, max - min)))

\* ------------------------------------------------------ float64 values
\* A float64 is a number (fixed-point, in v), a NaN or an infinity (its sign
\* in v).
Num(n) == [class |-> "number", v |-> n]
NaN == [class |-> "NaN", v |-> 0]
Inf(sign) == [class |-> "Inf", v |-> sign]

\* a * b
FloatMul(a, b) ==
    IF a.class = "NaN" \/ b.class = "NaN" THEN NaN
    ELSE IF a.class = "Inf" \/ b.class = "Inf"
         THEN IF a.v = 0 \/ b.v = 0 THEN NaN
              ELSE Inf(IF (a.v < 0) = (b.v < 0) THEN 1 ELSE -1)
    ELSE Num(Mul(a.v, b.v))

\* math.Abs(math.Sin(a * Phi)): the sine of a NaN or of an infinity is a NaN
FloatAbsSinPhi(a) ==
    IF a.class # "number" THEN NaN ELSE Num(Abs(SinOfProduct(a.v, Phi)))

\* 1.0 / (1.0 + r)
FloatReciprocalOfOnePlus(r) ==
    IF r.class = "NaN" THEN NaN
    ELSE IF r.class = "Inf" THEN Num(0)
    ELSE IF Scale + r.v = 0 THEN Inf(1)
    ELSE Num(Div(Scale, Scale + r.v))

\* core/entropy.go normalize on float64: math.Min and math.Max return NaN
\* when an argument is NaN.
FloatNormalize(x, min, max) ==
    IF x.class = "NaN" THEN NaN
    ELSE IF x.class = "Inf" THEN Num(IF x.v > 0 THEN Scale ELSE 100)
    ELSE Num(Normalize(x.v, min, max))

\* a + b for numbers and NaN
FloatAdd(a, b) ==
    IF a.class = "NaN" \/ b.class = "NaN" THEN NaN ELSE Num(a.v + b.v)

\* math.Log2(sum + 1) for a sum that is a number above -1, or a NaN
FloatLog2OfOnePlus(sum) ==
    IF sum.class = "NaN" THEN NaN ELSE Num(Log2(sum.v + Scale))

\* ------------------------------------------------------- glyphs and metrics
Trust == <<"t", "r", "u", "s", "t">>
Joy == <<"j", "o", "y">>
DefaultPattern ==
    <<"d", "e", "f", "a", "u", "l", "t", "-", "p", "a", "t", "t", "e", "r", "n">>

\* core/lyra.go LyraGlyph
LyraGlyph(emotion, intensity, ethics, timestamp) ==
    [Emotion |-> emotion, Intensity |-> intensity, EthicsScore |-> ethics,
     Timestamp |-> timestamp]

\* core/lyra.go GenerateHarmonics: 1, Phi, Phi^2, Phi^3
GenerateHarmonics == <<Scale, Phi, Mul(Phi, Phi), Mul(Mul(Phi, Phi), Phi)>>

\* Harmonics without the ethics term.
GenerateHarmonicsWithoutEthics(glyph) ==
    LET base == Mul(Phi, glyph.Intensity)
    IN <<base,
         base + SinDegrees(glyph.Timestamp % 360)>>

\* core/lyra.go GenerateDynamicHarmonics
GenerateDynamicHarmonics(glyph) ==
    LET base == Mul(Phi, glyph.Intensity)
    IN <<base,
         base + SinDegrees(glyph.Timestamp % 360),
         base + Mul(glyph.EthicsScore, Pi)>>

\* Default metrics whose coherence is under MinCoherence.
InitializeMetricsLowCoherence(glyph) ==
    [Coherence |-> 800,
     Phase |-> 1571,
     Amplitude |-> 1000,
     Harmonics |-> GenerateDynamicHarmonics(glyph),
     EntropyScore |-> 980,
     EntropyQuality |-> 990,
     QuantumResistance |-> 950,
     PhaseShift |-> 785,
     Pattern |-> DefaultPattern,
     CoherenceHistory |-> <<990>>,
     ValidationScore |-> 1000,
     NodeState |-> "active",
     Timestamp |-> glyph.Timestamp]

\* core/qalx.go InitializeQuantumMetricsWithGlyph (math.Pi / 2 = 1.571,
\* math.Pi / 4 = 0.785).  The fields no operation
\* of the model reads (key strength and length, signature, strength, entropy
\* level, coherence threshold, mesh node id) are left out of the record.
InitializeQuantumMetricsWithGlyph(glyph) ==
    [Coherence |-> 990,
     Phase |-> 1571,
     Amplitude |-> 1000,
     Harmonics |-> GenerateDynamicHarmonics(glyph),
     EntropyScore |-> 980,
     EntropyQuality |-> 990,
     QuantumResistance |-> 950,
     PhaseShift |-> 785,
     Pattern |-> DefaultPattern,
     CoherenceHistory |-> <<990>>,
     ValidationScore |-> 1000,
     NodeState |-> "active",
     Timestamp |-> glyph.Timestamp]

\* core/lyra.go ModulateQuantumMetricsWithLyra
ModulateQuantumMetricsWithLyra(metrics, glyph) ==
    [metrics EXCEPT
        !.EntropyQuality = Mul(@, glyph.Intensity),
        !.QuantumResistance = @ + Mul(glyph.EthicsScore, 10),
        !.Coherence = @ + Mul(glyph.Intensity, 10),
        !.ValidationScore = @ + Mul(glyph.EthicsScore, 50),
        !.Timestamp = glyph.Timestamp,
        !.Pattern = @ \o <<":">> \o glyph.Emotion]

\* ------------------------------------------------- scoring and the gate
\* A score that leaves the glyph modulation out of the sum.
ComputeQREWithoutGlyph(metrics, glyph, meshScore, resonance) ==
    LET entropySpread ==
            Normalize(Mul(metrics.EntropyScore, metrics.EntropyQuality), 100, 1000)
        periodObfuscation ==
            Normalize(Abs(SinOfProduct(metrics.PhaseShift, Phi)), 100, 1000)
        hybridDistortion ==
            Normalize(Abs(SinOfProduct(metrics.Phase, Phi)), 100, 1000)
        weightedResonance ==
            IF Scale + resonance = 0 THEN Scale
            ELSE Normalize(Div(Scale, Scale + resonance), 100, 1000)
        sum == entropySpread + periodObfuscation + hybridDistortion
               + weightedResonance
    IN Log2(sum + Scale)

\* core/entropy.go ComputeQRE.  1 / (1 + resonance) with resonance = -1 is
\* +Inf in float64, which normalize clamps to 1.0.
ComputeQRE(metrics, glyph, meshScore, resonance) ==
    LET entropySpread ==
            Normalize(Mul(metrics.EntropyScore, metrics.EntropyQuality), 100, 1000)
        periodObfuscation ==
            Normalize(Abs(SinOfProduct(metrics.PhaseShift, Phi)), 100, 1000)
        hybridDistortion ==
            Normalize(Abs(SinOfProduct(metrics.Phase, Phi)), 100, 1000)
        glyphModulation ==
            Normalize(Mul(Mul(glyph.Intensity, glyph.EthicsScore), meshScore), 100, 1000)
        weightedResonance ==
            IF Scale + resonance = 0 THEN Scale
            ELSE Normalize(Div(Scale, Scale + resonance), 100, 1000)
        sum == entropySpread + periodObfuscation + hybridDistortion
               + glyphModulation + weightedResonance
    IN Log2(sum + Scale)

\* core/entropy.go ComputeQRE, lines 30-34, on float64 arguments: the five
\* normalized factors in the order of the code.
QREFactors(metrics, glyph, meshScore, resonance) ==
    <<FloatNormalize(FloatMul(metrics.EntropyScore, metrics.EntropyQuality), 100, 1000),
      FloatNormalize(FloatAbsSinPhi(metrics.PhaseShift), 100, 1000),
      FloatNormalize(FloatAbsSinPhi(metrics.Phase), 100, 1000),
      FloatNormalize(FloatMul(FloatMul(glyph.Intensity, glyph.EthicsScore), meshScore),
                     100, 1000),
      FloatNormalize(FloatReciprocalOfOnePlus(resonance), 100, 1000)>>

\* core/entropy.go ComputeQRE, line 35
QRESum(f) == FloatAdd(FloatAdd(FloatAdd(FloatAdd(f[1], f[2]), f[3]), f[4]), f[5])

\* core/entropy.go ComputeQRE, line 36
QREScore(f) == FloatLog2OfOnePlus(QRESum(f))

\* A gate that is content with either the composite or the QRE.
QALXValidateEitherCondition(metrics, resonance, glyph, meshScore) ==
    LET trust == glyph.Emotion = Trust
        edge == trust /\ glyph.Intensity < 900 /\ metrics.Coherence < 900
        threshold == IF edge THEN 350 ELSE IF trust THEN 400 ELSE 500
        compositeThreshold == IF edge THEN 400 ELSE IF trust THEN 450 ELSE 500
        ethics == IF edge THEN glyph.EthicsScore + Mul(20, meshScore)
                  ELSE IF trust THEN glyph.EthicsScore + Mul(10, meshScore)
                  ELSE glyph.EthicsScore
        driftComp == IF edge THEN Scale + RoundDiv(Abs(glyph.Timestamp % 1000), 100)
                     ELSE Scale
        volatilityBonus ==
            IF edge THEN Mul(20, Abs(SinDegrees(glyph.Timestamp % 360))) ELSE 0
        glyph2 == [glyph EXCEPT !.EthicsScore = ethics]
        composite ==
            Mul(Mul(Mul(Mul(metrics.Coherence, resonance), ethics), meshScore), driftComp)
            + volatilityBonus
        qre == ComputeQRE(metrics, glyph2, meshScore, resonance)
    IN IF resonance < threshold THEN FALSE
       ELSE composite > compositeThreshold \/ qre > 2000

\* core/entropy.go QALXValidateQuantumSecurity
QALXValidateQuantumSecurity(metrics, resonance, glyph, meshScore) ==
    LET trust == glyph.Emotion = Trust
        edge == trust /\ glyph.Intensity < 900 /\ metrics.Coherence < 900
        threshold == IF edge THEN 350 ELSE IF trust THEN 400 ELSE 500
        compositeThreshold == IF edge THEN 400 ELSE IF trust THEN 450 ELSE 500
        ethics == IF edge THEN glyph.EthicsScore + Mul(20, meshScore)
                  ELSE IF trust THEN glyph.EthicsScore + Mul(10, meshScore)
                  ELSE glyph.EthicsScore
        driftComp == IF edge THEN Scale + RoundDiv(Abs(glyph.Timestamp % 1000), 100)
                     ELSE Scale
        volatilityBonus ==
            IF edge THEN Mul(20, Abs(SinDegrees(glyph.Timestamp % 360))) ELSE 0
        glyph2 == [glyph EXCEPT !.EthicsScore = ethics]
        composite ==
            Mul(Mul(Mul(Mul(metrics.Coherence, resonance), ethics), meshScore), driftComp)
            + volatilityBonus
        qre == ComputeQRE(metrics, glyph2, meshScore, resonance)
    IN IF resonance < threshold THEN FALSE
       ELSE composite > compositeThreshold /\ qre > 2000

\* core/mesh.go MeshMetrics, CalculateMeshScore
CalculateMeshScore(metrics) ==
    LET trustFactor == Normalize(metrics.AvgTrustWeight, 0, 1000)
        vitality == Normalize(metrics.UptimePercent, 0, 100000)
        resilience == Scale - Normalize(metrics.PathVariance, 0, 10000)
        harmony == Normalize(metrics.GlyphCoherence, 0, 1000)
        quantumRes == Normalize(metrics.QREValidationRate, 0, 1000)
        adaptability == Normalize(metrics.ReconfigTime, 0, 10000)
    IN Mul(200, trustFactor) + Mul(200, vitality) + Mul(200, resilience)
       + Mul(200, harmony) + Mul(100, quantumRes) + Mul(100, Scale - adaptability)

\* 1.0 - a
FloatOneMinus(a) ==
    IF a.class = "NaN" THEN NaN
    ELSE IF a.class = "Inf" THEN Inf(-a.v)
    ELSE Num(Scale - a.v)

\* core/mesh.go CalculateMeshScore on float64 inputs
CalculateMeshScoreOnFloats(metrics) ==
    LET trustFactor == FloatNormalize(metrics.AvgTrustWeight, 0, 1000)
        vitality == FloatNormalize(metrics.UptimePercent, 0, 100000)
        resilience == FloatOneMinus(FloatNormalize(metrics.PathVariance, 0, 10000))
        harmony == FloatNormalize(metrics.GlyphCoherence, 0, 1000)
        quantumRes == FloatNormalize(metrics.QREValidationRate, 0, 1000)
        adaptability == FloatNormalize(metrics.ReconfigTime, 0, 10000)
    IN FloatAdd(FloatAdd(FloatAdd(FloatAdd(FloatAdd(
           FloatMul(Num(200), trustFactor),
           FloatMul(Num(200), vitality)),
           FloatMul(Num(200), resilience)),
           FloatMul(Num(200), harmony)),
           FloatMul(Num(100), quantumRes)),
           FloatMul(Num(100), FloatOneMinus(adaptability)))

\* The MeshMetrics literal of PropagateMetrics and ValidateAllNodes.
FixedMeshMetrics ==
    [AvgTrustWeight |-> 900, UptimePercent |-> 99000, PathVariance |-> 2000,
     GlyphCoherence |-> 950, QREValidationRate |-> 980, ReconfigTime |-> 1200]

\* ----------------------------------------------------------- key derivation
\* core/entropy.go EntropyPoolSize
EntropyPoolSize == 1024

\* core/entropy.go initializeEntropyPool: EntropyPoolSize bytes of rand.Read,
\* kept as a symbol for whatever bytes were drawn.
initializeEntropyPool == [size |-> EntropyPoolSize, val |-> <<"rand.Read">>]

\* sha512 over the three writes of mixEntropy: a 64-byte digest, kept as the
\* term of what was written (two digests are equal iff their inputs are).
Sha512(pool, data, biased) == [size |-> 64, val |-> <<pool, data, biased>>]

\* byte(x) of a fixed-point x in [0, 256): the integer part.
ToByte(x) == (x \div Scale) % 256

\* a ^ b on bytes
RECURSIVE Xor(_, _)
Xor(a, b) ==
    IF a = 0 THEN b
    ELSE IF b = 0 THEN a
    ELSE 2 * Xor(a \div 2, b \div 2) + ((a + b) % 2)

\* math.Sin(x * math.Pi) for a fixed-point x.
SinTimesPi(x) == Sin10(RoundDiv(x * 31416, Scale))

\* buffer[i] = bytes[i % len(bytes)] for the n bytes of a buffer
CycleOver(bytes, n) == [i \in 1..n |-> bytes[((i - 1) % Len(bytes)) + 1]]

\* the bytes are computed once, then laid out over the buffer
Cycle(bytes, n) == CycleOver(bytes \o <<>>, n)

\* core/entropy.go harvestQuantumEntropy
harvestQuantumEntropy(metrics) ==
    LET quantumFactors ==
            <<metrics.Coherence, metrics.Phase, metrics.Amplitude>> \o metrics.Harmonics
    IN \* byte((quantum + 1) * 128), computed once per factor
       Cycle([j \in 1..Len(quantumFactors) |->
                 ToByte((SinTimesPi(quantumFactors[j]) + Scale) * 128)], 32)

\* core/entropy.go mixEntropy, lines 71-77: the digest of the pool value
\* read at line 70, the harvested buffer and the biased buffer.
mixEntropy(pool, quantumEntropy, glyph, meshScore) ==
    LET bias == ToByte(Mul(Mul(glyph.Intensity, glyph.EthicsScore), meshScore) * 128)
        biased == [i \in 1..Len(quantumEntropy) |-> Xor(quantumEntropy[i], bias)]
    IN Sha512(pool, quantumEntropy, biased)

\* core/entropy.go amplifyQuantumKey: 64 bytes, each a byte of the entropy
\* xored with a byte of the mask computed here; the index i % len(Harmonics)
\* panics on empty harmonics.
amplifyQuantumKey(entropy, metrics, glyph) ==
    IF metrics.Harmonics = <<>>
    THEN [key |-> <<>>, err |-> "panic"]
    ELSE LET glyphPhase == SinTimesPi(Mul(glyph.Intensity, glyph.EthicsScore))
         IN [key |-> [size |-> 64, entropy |-> entropy,
                      \* byte((quantumPhase + 1) * 128), computed once per
                      \* harmonic
                      mask |-> Cycle([j \in 1..Len(metrics.Harmonics) |->
                                  ToByte((Sin(Mul(Mul(metrics.Phase, metrics.Harmonics[j]),
                                                  glyphPhase)) + Scale) * 128)], 64)],
             err |-> "nil"]

\* QALXGenerateSecureKey, line 45: the pool mixEntropy left and the key
\* amplified from what it returned.
Amplified(mixedEntropy, metrics, glyph) ==
    [pool |-> mixedEntropy] @@ amplifyQuantumKey(mixedEntropy, metrics, glyph)

\* A derivation that mixes the pool before it looks at the coherence.
QALXGenerateSecureKeyMixesFirst(pool, metrics, glyph, meshScore) ==
    LET mixed == mixEntropy(pool, harvestQuantumEntropy(metrics), glyph, meshScore)
    IN IF metrics.Coherence < MinCoherence
       THEN [pool |-> mixed, key |-> <<>>, err |-> "ErrInsufficientCoherence"]
       ELSE Amplified(mixed, metrics, glyph)

\* core/entropy.go QALXGenerateSecureKey run alone: the pool it leaves, the
\* key and the error.
QALXGenerateSecureKey(pool, metrics, glyph, meshScore) ==
    IF metrics.Coherence < MinCoherence
    THEN [pool |-> pool, key |-> <<>>, err |-> "ErrInsufficientCoherence"]
    ELSE Amplified(mixEntropy(pool, harvestQuantumEntropy(metrics), glyph, meshScore),
                   metrics, glyph)

\* ------------------------------------------------------------- mesh nodes
\* A GenerateMeshNode that takes the history of the metrics as it is.
GenerateMeshNodeCopiesHistory(metrics, id) ==
    [ID |-> id,
     Metrics |-> metrics,
     Pattern |-> GeneratePattern(metrics),
     CoherenceHistory |-> metrics.CoherenceHistory,
     State |-> "active",
     Timestamp |-> metrics.Timestamp]

\* core/mesh.go GenerateMeshNode; id is the value GenerateSignature returns.
GenerateMeshNode(metrics, id) ==
    [ID |-> id,
     Metrics |-> metrics,
     Pattern |-> GeneratePattern(metrics),
     CoherenceHistory |-> Append(metrics.CoherenceHistory, metrics.Coherence),
     State |-> "active",
     Timestamp |-> metrics.Timestamp]

\* An update that appends to the history and leaves the metric as it was.
UpdateHistoryOnly(node, newCoherence) ==
    [node EXCEPT !.CoherenceHistory = Append(@, newCoherence)]

\* core/mesh.go UpdateCoherenceHistory
UpdateCoherenceHistory(node, newCoherence) ==
    [node EXCEPT !.CoherenceHistory = Append(@, newCoherence),
                 !.Metrics.Coherence = newCoherence]

\* Validation that looks at the state before the coherence.
ValidateStateFirst(node, resonance, glyph, meshScore) ==
    IF node.State # "active" THEN "NodeNotActive"
    ELSE IF node.Metrics.Coherence < MinCoherence THEN "CoherenceTooLow"
    ELSE IF ~QALXValidateQuantumSecurity(node.Metrics, resonance, glyph, meshScore)
         THEN "SecurityGateFailed"
    ELSE "nil"

\* Validation that runs the gate before it looks at the state.
ValidateGateBeforeState(node, resonance, glyph, meshScore) ==
    IF node.Metrics.Coherence < MinCoherence THEN "CoherenceTooLow"
    ELSE IF ~QALXValidateQuantumSecurity(node.Metrics, resonance, glyph, meshScore)
         THEN "SecurityGateFailed"
    ELSE IF node.State # "active" THEN "NodeNotActive"
    ELSE "nil"

\* Validation that does not look at the state.
ValidateMeshNodeIgnoresState(node, resonance, glyph, meshScore) ==
    IF node.Metrics.Coherence < MinCoherence THEN "CoherenceTooLow"
    ELSE IF ~QALXValidateQuantumSecurity(node.Metrics, resonance, glyph, meshScore)
         THEN "SecurityGateFailed"
    ELSE "nil"

\* core/mesh.go ValidateMeshNode: the error's kind, "nil" for success.
ValidateMeshNode(node, resonance, glyph, meshScore) ==
    IF node.Metrics.Coherence < MinCoherence THEN "CoherenceTooLow"
    ELSE IF node.State # "active" THEN "NodeNotActive"
    ELSE IF ~QALXValidateQuantumSecurity(node.Metrics, resonance, glyph, meshScore)
         THEN "SecurityGateFailed"
    ELSE "nil"

\* ---------------------------------------------------------------- patterns
\* core/mesh.go PatternValidationError reasons
PatternNotUnique == "Pattern is not unique in mesh history"
PatternTooShort == "Pattern entropy too low"

\* Pattern validation that compares the pattern with the history as written.
ValidatePatternCaseSensitive(pattern, history) ==
    LET norm == ToLower(pattern)
    IN IF \E i \in 1..Len(history) : history[i] = pattern
       THEN PatternNotUnique
       ELSE IF ByteLen(norm) < MinPatternLength THEN PatternTooShort
       ELSE "nil"

\* Pattern validation that checks the length before the history.
ValidatePatternLengthFirst(pattern, history) ==
    LET norm == ToLower(pattern)
    IN IF ByteLen(norm) < MinPatternLength THEN PatternTooShort
       ELSE IF \E i \in 1..Len(history) : ToLower(history[i]) = norm
       THEN PatternNotUnique
       ELSE "nil"

\* core/mesh.go ValidatePattern: the error's reason, "nil" for none.
ValidatePattern(pattern, history) ==
    LET norm == ToLower(pattern)
    IN IF \E i \in 1..Len(history) : ToLower(history[i]) = norm
       THEN PatternNotUnique
       ELSE IF ByteLen(norm) < MinPatternLength THEN PatternTooShort
       ELSE "nil"

\* QALX/core/mesh.go ValidatePattern, the earlier check: the pattern is
\* compared as written and must have 8 bytes.
OriginalValidatePattern(pattern, history) ==
    IF \E i \in 1..Len(history) : history[i] = pattern THEN PatternNotUnique
    ELSE IF ByteLen(pattern) < 8 THEN PatternTooShort
    ELSE "nil"

\* ------------------------------------------------------- the mesh network
\* core/mesh.go NewMeshNetwork: the empty map.
NewMeshNetwork == <<>>

\* net.Nodes[id] = node
Store(nodes, id, node) ==
    [i \in DOMAIN nodes \cup {id} |-> IF i = id THEN node ELSE nodes[i]]

\* An AddNode that leaves an identifier already present as it is.
AddNodeIfAbsent(nodes, node) ==
    IF node.ID \in DOMAIN nodes THEN nodes ELSE Store(nodes, node.ID, node)

\* core/mesh.go MeshNetwork.AddNode
AddNode(nodes, node) == Store(nodes, node.ID, node)

\* Revocation that appends the suffix on every call.
RevokedAppendsAlways(node) ==
    [node EXCEPT !.State = "revoked", !.Pattern = @ \o RevokedSuffix]

\* The body of RevokeNode and of PropagateRevocation's loop: the revoked copy.
Revoked(node) ==
    [node EXCEPT !.State = "revoked",
                 !.Pattern = IF ~HasSuffix(@, RevokedSuffix)
                             THEN @ \o RevokedSuffix ELSE @]

\* A revocation that deletes the entry.
RevokeNodeDeletes(nodes, nodeID, reason) ==
    [id \in DOMAIN nodes \ {nodeID} |-> nodes[id]]

\* A revocation that writes the entry back whether or not it was found.
RevokeNodeWritesBack(nodes, nodeID, reason) ==
    Store(nodes, nodeID,
          Revoked(IF nodeID \in DOMAIN nodes THEN nodes[nodeID]
                  ELSE [ID |-> 0, Metrics |-> <<>>, Pattern |-> <<>>,
                        CoherenceHistory |-> <<>>, State |-> "", Timestamp |-> 0]))

\* core/mesh.go MeshNetwork.RevokeNode (the reason is not used).
RevokeNode(nodes, nodeID, reason) ==
    IF nodeID \in DOMAIN nodes THEN Store(nodes, nodeID, Revoked(nodes[nodeID]))
    ELSE nodes

\* Revocation propagated to every node, the named one included.
PropagateRevocationToAll(nodes, nodeID) ==
    [id \in DOMAIN nodes |->
        [nodes[id] EXCEPT !.State = "revoked",
                          !.Pattern = IF ~HasSuffix(@, RevokedSuffix)
                                      THEN @ \o RevokedSuffix ELSE @]]

\* Revocation propagated as a state alone, the patterns left as they are.
PropagateRevocationStateOnly(nodes, nodeID) ==
    [id \in DOMAIN nodes |->
        IF id # nodeID THEN [nodes[id] EXCEPT !.State = "revoked"] ELSE nodes[id]]

\* core/mesh.go MeshNetwork.PropagateRevocation
PropagateRevocation(nodes, nodeID) ==
    [id \in DOMAIN nodes |-> IF id # nodeID THEN Revoked(nodes[id]) ELSE nodes[id]]

\* A write-back that appends the destination's own coherence.
PropagatedNodeOwnCoherence(fromNode, toNode) ==
    [toNode EXCEPT
        !.Metrics.CoherenceHistory = Append(@, toNode.Metrics.Coherence),
        !.Metrics.ValidationScore =
            (@ + fromNode.Metrics.ValidationScore + 1) \div 2]

\* PropagateMetrics, lines 180-181: the destination as it is written back.
PropagatedNode(fromNode, toNode) ==
    [toNode EXCEPT
        !.Metrics.CoherenceHistory = Append(@, fromNode.Metrics.Coherence),
        !.Metrics.ValidationScore =
            RoundDiv(@ + fromNode.Metrics.ValidationScore, 2)]

\* The glyph PropagateMetrics and ValidateAllNodes validate with.
DefaultGlyph(node) == LyraGlyph(Trust, 1000, 1000, node.Timestamp)

\* The zero value net.Nodes[id] yields for an absent id.
ZeroNode ==
    [ID |-> 0,
     Metrics |-> [Coherence |-> 0, Phase |-> 0, Amplitude |-> 0, Harmonics |-> <<>>,
                  EntropyScore |-> 0, EntropyQuality |-> 0, QuantumResistance |-> 0,
                  PhaseShift |-> 0, Pattern |-> <<>>, CoherenceHistory |-> <<>>,
                  ValidationScore |-> 0, NodeState |-> "", Timestamp |-> 0],
     Pattern |-> <<>>, CoherenceHistory |-> <<>>, State |-> "", Timestamp |-> 0]

\* Propagation that checks only the source's presence.
PropagateMetricsUncheckedTarget(nodes, fromID, toID) ==
    IF fromID \notin DOMAIN nodes
    THEN [nodes |-> nodes, err |-> "NodeNotFound"]
    ELSE LET old == IF toID \in DOMAIN nodes THEN nodes[toID] ELSE ZeroNode
             toNode == PropagatedNode(nodes[fromID], old)
         IN [nodes |-> Store(nodes, toID, toNode),
             err |-> ValidateMeshNode(toNode, DefaultMeshScore, DefaultGlyph(toNode),
                                      CalculateMeshScore(FixedMeshMetrics))]

\* Propagation that stores the destination only when it validates.
PropagateMetricsValidatesFirst(nodes, fromID, toID) ==
    IF fromID \notin DOMAIN nodes \/ toID \notin DOMAIN nodes
    THEN [nodes |-> nodes, err |-> "NodeNotFound"]
    ELSE LET toNode == PropagatedNode(nodes[fromID], nodes[toID])
             err == ValidateMeshNode(toNode, DefaultMeshScore, DefaultGlyph(toNode),
                                     CalculateMeshScore(FixedMeshMetrics))
         IN [nodes |-> IF err = "nil" THEN Store(nodes, toID, toNode) ELSE nodes,
             err |-> err]

\* core/mesh.go MeshNetwork.PropagateMetrics: the network and the error.
PropagateMetrics(nodes, fromID, toID) ==
    IF fromID \notin DOMAIN nodes \/ toID \notin DOMAIN nodes
    THEN [nodes |-> nodes, err |-> "NodeNotFound"]
    ELSE LET toNode == PropagatedNode(nodes[fromID], nodes[toID])
         IN [nodes |-> Store(nodes, toID, toNode),
             err |-> ValidateMeshNode(toNode, DefaultMeshScore, DefaultGlyph(toNode),
                                      CalculateMeshScore(FixedMeshMetrics))]

\* A ValidateAllNodes that reports the failing nodes only.
ValidateAllNodesFailuresOnly(nodes) ==
    LET err(id) == ValidateMeshNode(nodes[id], DefaultMeshScore, DefaultGlyph(nodes[id]),
                                    CalculateMeshScore(FixedMeshMetrics))
    IN [id \in {i \in DOMAIN nodes : err(i) # "nil"} |-> err(id)]

\* core/mesh.go MeshNetwork.ValidateAllNodes
ValidateAllNodes(nodes) ==
    [id \in DOMAIN nodes |->
        ValidateMeshNode(nodes[id], DefaultMeshScore, DefaultGlyph(nodes[id]),
                         CalculateMeshScore(FixedMeshMetrics))]

\* ------------------------------------------------------------ inputs
\* Glyphs the callers pass: the tests' trust glyph, an edge trust glyph, a
\* non-trust glyph and the tests' malformed glyph.
Glyphs ==
    {LyraGlyph(Trust, 1000, 1000, 1234567890),
     LyraGlyph(Trust, 800, 1000, 1234567890),
     LyraGlyph(Joy, 1000, 900, 30),
     LyraGlyph(<<>>, -1000, -500, 0)}
\* Glyphs the metrics are initialized with: the tests' glyph under two tags
\* (the tag does not enter the metrics).
InitGlyphs ==
    {LyraGlyph(Trust, 1000, 1000, 1234567890), LyraGlyph(Joy, 1000, 1000, 1234567890)}
\* Coherence values the callers force on a metrics record.
Coherences == {-1000, 849, 850}
\* Coherence values the callers append with UpdateCoherenceHistory.
Updates == {500}
Resonances == {0, 400, 1000}
MeshScores == {0, 914, 1000}
Reasons == {"test reason", "compromised"}
\* Identifiers the callers name: those GenerateSignature hands out, and one
\* that no node carries.
NodeIDs == 1..MaxNodes
AnyIDs == 1..(MaxNodes + 1)

\* ------------------------------------------------------------- state
VARIABLES
    net,       \* MeshNetwork.Nodes: identifier -> node
    nextID,    \* the next identifier GenerateSignature returns
    metrics,   \* the caller's QuantumMetrics variable (<<>>: not yet set)
    node,      \* the caller's QuantumMeshNode variable (<<>>: not yet set)
    ret,       \* the last call: its name, arguments and result
    entropyPool,  \* core/entropy.go entropyPool, the package's global
    pc,        \* concurrent callers: the statement each one is at
    loc,       \* concurrent callers: the call's arguments and locals
    heap       \* the backing arrays of the slices that are followed by address

vars == <<net, nextID, metrics, node, ret, entropyPool, pc, loc, heap>>

\* The goroutines calling concurrently.
Procs == 1..NumProcs

\* The record of a call: its name and arguments, the error and the results
\* it returned, and the network (pre) and the entropy pool (pool) it was
\* entered with.
Ret(op, a, b, err, errs) ==
    [op |-> op, a |-> a, b |-> b, err |-> err, errs |-> errs, pre |-> net,
     pool |-> entropyPool]

Init ==
    /\ net = NewMeshNetwork
    /\ nextID = 1
    /\ metrics = <<>>
    /\ node = <<>>
    /\ entropyPool = initializeEntropyPool
    /\ heap = <<>>
    /\ ret = Ret("start", 0, 0, "nil", <<>>)
    /\ pc = [p \in Procs |-> "idle"]
    /\ loc = [p \in Procs |-> [op |-> "none"]]

\* metrics := InitializeQuantumMetricsWithGlyph(glyph); a caller builds its
\* next node once it holds no other.
CallInitializeMetrics ==
    \E g \in InitGlyphs :
        /\ node = <<>>
        /\ metrics' = <<InitializeQuantumMetricsWithGlyph(g)>>
        /\ ret' = Ret("InitializeQuantumMetricsWithGlyph", 0, 0, "nil", <<>>)
        /\ UNCHANGED <<net, nextID, node, entropyPool, pc, loc, heap>>

\* metrics.Coherence = v, as the tests force it.
CallSetCoherence ==
    \E v \in Coherences :
        /\ metrics # <<>>
        /\ metrics' = <<[metrics[1] EXCEPT !.Coherence = v]>>
        /\ ret' = Ret("SetCoherence", 0, 0, "nil", <<>>)
        /\ UNCHANGED <<net, nextID, node, entropyPool, pc, loc, heap>>

\* ModulateQuantumMetricsWithLyra(&metrics, glyph), once per metrics record.
CallModulate ==
    \E g \in Glyphs :
        /\ metrics # <<>>
        /\ metrics[1].Pattern = DefaultPattern
        /\ metrics' = <<ModulateQuantumMetricsWithLyra(metrics[1], g)>>
        /\ ret' = Ret("ModulateQuantumMetricsWithLyra", 0, 0, "nil", <<>>)
        /\ UNCHANGED <<net, nextID, node, entropyPool, pc, loc, heap>>

\* node := GenerateMeshNode(metrics); the caller's metrics variable is not
\* used again.
CallGenerateMeshNode ==
    /\ metrics # <<>>
    /\ nextID <= MaxNodes
    /\ node' = <<GenerateMeshNode(metrics[1], nextID)>>
    /\ nextID' = nextID + 1
    /\ metrics' = <<>>
    /\ ret' = Ret("GenerateMeshNode", nextID, metrics[1], "nil", <<>>)
    /\ UNCHANGED <<net, entropyPool, pc, loc, heap>>

\* node := net.Nodes[id], the snapshot a caller reads.
CallReadNode ==
    \E id \in DOMAIN net :
        /\ node' = <<net[id]>>
        /\ ret' = Ret("ReadNode", id, 0, "nil", <<>>)
        /\ UNCHANGED <<net, nextID, metrics, entropyPool, pc, loc, heap>>

\* UpdateCoherenceHistory(&node, v)
CallUpdateCoherenceHistory ==
    \E v \in Updates :
        /\ node # <<>>
        /\ Len(node[1].CoherenceHistory) < MaxHist
        /\ node' = <<UpdateCoherenceHistory(node[1], v)>>
        /\ ret' = Ret("UpdateCoherenceHistory", node[1].ID, 0, "nil", <<>>)
        /\ UNCHANGED <<net, nextID, metrics, entropyPool, pc, loc, heap>>

\* node.State = "revoked", as the tests force it.
CallForceRevoked ==
    /\ node # <<>>
    /\ node' = <<[node[1] EXCEPT !.State = "revoked"]>>
    /\ ret' = Ret("ForceRevoked", node[1].ID, 0, "nil", <<>>)
    /\ UNCHANGED <<net, nextID, metrics, entropyPool, pc, loc, heap>>

\* err := ValidateMeshNode(node, resonance, glyph, meshScore)
CallValidateMeshNode ==
    \E r \in Resonances, g \in Glyphs, ms \in MeshScores :
        /\ node # <<>>
        /\ ret' = [Ret("ValidateMeshNode", node[1].ID, 0,
                       ValidateMeshNode(node[1], r, g, ms), <<>>)
                   EXCEPT !.b = <<r, g, ms>>]
        /\ UNCHANGED <<net, nextID, metrics, node, entropyPool, pc, loc, heap>>

\* net.AddNode(node); the caller's node variable is not used again.
CallAddNode ==
    /\ node # <<>>
    /\ net' = AddNode(net, node[1])
    /\ node' = <<>>
    /\ ret' = Ret("AddNode", node[1].ID, node[1], "nil", <<>>)
    /\ UNCHANGED <<nextID, metrics, entropyPool, pc, loc, heap>>

\* err := net.PropagateMetrics(fromID, toID)
CallPropagateMetrics ==
    \E fromID \in AnyIDs, toID \in AnyIDs :
        /\ toID \in DOMAIN net => Len(net[toID].Metrics.CoherenceHistory) < MaxPropagated
        /\ LET r == PropagateMetrics(net, fromID, toID)
           IN /\ net' = r.nodes
              /\ ret' = Ret("PropagateMetrics", fromID, toID, r.err, <<>>)
        /\ UNCHANGED <<nextID, metrics, node, entropyPool, pc, loc, heap>>

\* results := net.ValidateAllNodes()
CallValidateAllNodes ==
    /\ ret' = Ret("ValidateAllNodes", 0, 0, "nil", ValidateAllNodes(net))
    /\ UNCHANGED <<net, nextID, metrics, node, entropyPool, pc, loc, heap>>

\* net.RevokeNode(id, reason)
CallRevokeNode ==
    \E id \in AnyIDs, reason \in Reasons :
        /\ net' = RevokeNode(net, id, reason)
        /\ ret' = Ret("RevokeNode", id,
                      IF ret.op = "RevokeNode" /\ ret.a = id THEN 2 ELSE 1,
                      "nil", <<>>)
        /\ UNCHANGED <<nextID, metrics, node, entropyPool, pc, loc, heap>>

\* net.PropagateRevocation(id)
CallPropagateRevocation ==
    \E id \in AnyIDs :
        /\ net' = PropagateRevocation(net, id)
        /\ ret' = Ret("PropagateRevocation", id, 0, "nil", <<>>)
        /\ UNCHANGED <<nextID, metrics, node, entropyPool, pc, loc, heap>>

Next ==
    \/ CallInitializeMetrics
    \/ CallGenerateMeshNode
    \/ CallReadNode
    \/ CallUpdateCoherenceHistory
    \/ CallAddNode
    \/ CallPropagateMetrics
    \/ CallValidateAllNodes
    \/ CallRevokeNode
    \/ CallPropagateRevocation

\* The mesh network under one caller at a time.
Spec == Init /\ [][Next]_vars

NextNode ==
    \/ CallInitializeMetrics
    \/ CallSetCoherence
    \/ CallModulate
    \/ CallGenerateMeshNode
    \/ CallUpdateCoherenceHistory
    \/ CallForceRevoked
    \/ CallValidateMeshNode

\* One caller building, modulating and validating nodes, no network.
SpecNode == Init /\ [][NextNode]_vars

\* Arguments of QALXGenerateSecureKey: the default metrics, the same with a
\* coherence below and at MinCoherence, and with no harmonics; the glyphs of
\* the tests, the zero glyph among them.
DeriveMetrics ==
    LET m == InitializeQuantumMetricsWithGlyph(LyraGlyph(Trust, 1000, 1000, 1234567890))
    IN {m, [m EXCEPT !.Coherence = 849], [m EXCEPT !.Coherence = 850],
        [m EXCEPT !.Harmonics = <<>>]}
DeriveGlyphs == Glyphs \cup {LyraGlyph(Trust, 0, 0, 1234567890)}

\* The number of digests the pool has been replaced by.
RECURSIVE PoolDepth(_)
PoolDepth(pool) ==
    IF pool.size = EntropyPoolSize THEN 0 ELSE 1 + PoolDepth(pool.val[1])

\* key, err := QALXGenerateSecureKey(metrics, glyph, meshScore); a panic ends
\* the program.
CallGenerateSecureKey ==
    \E m \in DeriveMetrics, g \in DeriveGlyphs, ms \in MeshScores :
        /\ ret.err # "panic"
        /\ PoolDepth(entropyPool) < MaxKeys
        /\ \E r \in {QALXGenerateSecureKey(entropyPool, m, g, ms)} :
              /\ entropyPool' = r.pool
              /\ ret' = Ret("QALXGenerateSecureKey",
                            [metrics |-> m, glyph |-> g, meshScore |-> ms],
                            r.key, r.err, <<>>)
        /\ UNCHANGED <<net, nextID, metrics, node, pc, loc, heap>>

NextDerive == CallGenerateSecureKey

\* One caller deriving keys one after the other.
SpecDerive == Init /\ [][NextDerive]_vars

\* ------------------------------------------------------------- the gate
\* Arguments of QALXValidateQuantumSecurity: the default metrics and the same
\* with a coherence just below and at 0.90; the "trust" tag with an intensity
\* just below and at 0.90, the same tag capitalized, another tag, the empty
\* tag; resonances just below and at each threshold, and a large one.
TrustCapital == <<"T", "r", "u", "s", "t">>
GateMetrics ==
    LET m == InitializeQuantumMetricsWithGlyph(LyraGlyph(Trust, 1000, 1000, 1234567890))
    IN {m, [m EXCEPT !.Coherence = 899], [m EXCEPT !.Coherence = 900]}
GateGlyphs ==
    {LyraGlyph(Trust, 1000, 1000, 1234567890),
     LyraGlyph(Trust, 899, 1000, 1234567890),
     LyraGlyph(Trust, 900, 1000, 1234567890),
     LyraGlyph(TrustCapital, 899, 1000, 1234567890),
     LyraGlyph(Joy, 1000, 2000, 30),
     LyraGlyph(<<>>, -1000, -500, 0)}
GateResonances == {349, 350, 399, 400, 499, 500, 1000, 10000}

\* ok := QALXValidateQuantumSecurity(metrics, resonance, glyph, meshScore)
CallValidateQuantumSecurity ==
    \E m \in GateMetrics, r \in GateResonances, g \in GateGlyphs, ms \in MeshScores :
        /\ ret' = Ret("QALXValidateQuantumSecurity",
                      [metrics |-> m, resonance |-> r, glyph |-> g, meshScore |-> ms],
                      QALXValidateQuantumSecurity(m, r, g, ms), "nil", <<>>)
        /\ UNCHANGED <<net, nextID, metrics, node, entropyPool, pc, loc, heap>>

NextGate == CallValidateQuantumSecurity

\* One caller asking the gate about one set of arguments after the other.
SpecGate == Init /\ [][NextGate]_vars

\* ------------------------------------------------------------ fresh nodes
\* Timestamps of the glyphs a fresh node is built from and validated with.
Timestamps == {0, 90, 1234567890}
\* The tests' "trust" glyph, intensity and ethics score 1.0, at each timestamp.
TrustGlyphs == {LyraGlyph(Trust, 1000, 1000, ts) : ts \in Timestamps}

\* metrics := InitializeQuantumMetricsWithGlyph(glyph), for a node to be built
CallInitializeFresh ==
    \E g \in TrustGlyphs \cup InitGlyphs :
        /\ node = <<>>
        /\ metrics = <<>>
        /\ metrics' = <<InitializeQuantumMetricsWithGlyph(g)>>
        /\ ret' = Ret("InitializeQuantumMetricsWithGlyph", 0, 0, "nil", <<>>)
        /\ UNCHANGED <<net, nextID, node, entropyPool, pc, loc, heap>>

\* err := ValidateMeshNode(node, resonance, glyph, meshScore) on the node
\* GenerateMeshNode has just returned
CallValidateFresh ==
    \E r \in Resonances, g \in TrustGlyphs \cup Glyphs, ms \in MeshScores :
        /\ node # <<>>
        /\ ret' = [Ret("ValidateMeshNode", node[1].ID, 0,
                       ValidateMeshNode(node[1], r, g, ms), <<>>)
                   EXCEPT !.b = <<r, g, ms>>]
        /\ UNCHANGED <<net, nextID, metrics, node, entropyPool, pc, loc, heap>>

NextFresh ==
    \/ CallInitializeFresh
    \/ CallGenerateMeshNode
    \/ CallValidateFresh

\* Nodes built from default-initialized metrics and validated as they are.
SpecFresh == Init /\ [][NextFresh]_vars

\* -------------------------------------------------------------- the score
\* Arguments of ComputeQRE: the default metrics of each initializing glyph,
\* glyphs of intensity and ethics score 1.0 under three tags and three
\* timestamps beside the other glyphs of the tests, mesh scores from 0 to 1.0,
\* resonances from below -1 to 10.
QREGlyphs ==
    {LyraGlyph(e, 1000, 1000, ts) : e \in {Trust, Joy, <<>>}, ts \in Timestamps}
        \cup Glyphs
QREMeshScores == {0, 500, 1000}
QREResonances == {-2000, 0, 1000, 10000}

\* qre := ComputeQRE(metrics, glyph, meshScore, resonance)
CallComputeQRE ==
    \E ig \in TrustGlyphs \cup InitGlyphs, g \in QREGlyphs,
       ms \in QREMeshScores, r \in QREResonances :
        /\ ret' = Ret("ComputeQRE",
                      [metrics |-> InitializeQuantumMetricsWithGlyph(ig), glyph |-> g,
                       meshScore |-> ms, resonance |-> r],
                      ComputeQRE(InitializeQuantumMetricsWithGlyph(ig), g, ms, r),
                      "nil", <<>>)
        /\ UNCHANGED <<net, nextID, metrics, node, entropyPool, pc, loc, heap>>

NextQRE == CallComputeQRE

\* One caller scoring one set of arguments after the other.
SpecQRE == Init /\ [][NextQRE]_vars

\* -------------------------------------------------------- pattern checks
\* Arguments of ValidatePattern.  A pattern is a head of at most two
\* characters, in either case or outside ASCII, followed by nothing or by six
\* characters: 0, 1, 2, 6, 7 or 8 characters.
PatternHeads ==
    {<<>>} \cup {<<c>> : c \in {"a", "A", "U+023A"}}
           \cup {<<c, d>> : c, d \in {"a", "A", "U+023A"}}
PatternTails == {<<>>, <<"b", "c", "1", "2", "3", "4">>}
Patterns == {h \o t : h \in PatternHeads, t \in PatternTails}
\* The patterns a history holds.
HistoryEntries ==
    {<<>>,
     <<"a", "b", "c", "1", "2", "3", "4">>,
     <<"a", "a", "b", "c", "1", "2", "3", "4">>}
Histories ==
    UNION {[1..n -> HistoryEntries] : n \in 0..MaxPatterns}

\* err := ValidatePattern(pattern, history)
CallValidatePattern ==
    \E p \in Patterns, h \in Histories :
        /\ ret' = Ret("ValidatePattern", p, h, ValidatePattern(p, h), <<>>)
        /\ UNCHANGED <<net, nextID, metrics, node, entropyPool, pc, loc, heap>>

NextPattern == CallValidatePattern

\* One caller validating one pattern after the other.
SpecPattern == Init /\ [][NextPattern]_vars

\* ------------------------------------------------------------ fingerprints
\* Metrics a fingerprint is taken of: the default metrics with coherence,
\* phase and amplitude below, inside and above the range of a byte when
\* multiplied by 100.
FingerprintMetrics ==
    LET m == InitializeQuantumMetricsWithGlyph(LyraGlyph(Trust, 1000, 1000, 1234567890))
    IN {[m EXCEPT !.Coherence = c, !.Phase = p, !.Amplitude = a] :
            c \in {-1000, 0, 849, 990, 3000},
            p \in {-1571, 0, 500, 1571},
            a \in {0, 800, 1000}}

\* pattern := GeneratePattern(metrics); err := ValidatePattern(pattern, []string{})
CallGeneratePattern ==
    \E m \in FingerprintMetrics :
        /\ ret' = Ret("GeneratePattern", m, GeneratePattern(m),
                      ValidatePattern(GeneratePattern(m), <<>>), <<>>)
        /\ UNCHANGED <<net, nextID, metrics, node, entropyPool, pc, loc, heap>>

\* The same two calls on the earlier code of QALX/core/mesh.go, the usage
\* example of Original.md.
CallOriginalGeneratePattern ==
    \E m \in FingerprintMetrics :
        \E pattern \in OriginalGeneratePattern(m) :
            /\ ret' = Ret("OriginalGeneratePattern", m, pattern,
                          OriginalValidatePattern(pattern, <<>>), <<>>)
            /\ UNCHANGED <<net, nextID, metrics, node, entropyPool, pc, loc, heap>>

NextFingerprint ==
    \/ CallGeneratePattern
    \/ CallOriginalGeneratePattern

\* One caller taking fingerprints and validating them on an empty history.
SpecFingerprint == Init /\ [][NextFingerprint]_vars

\* ------------------------------------------------- snapshots and slices
\* A QuantumMeshNode read from the map is a copy of the struct: the copy of a
\* slice field is a second header (array, len, cap) over the same backing
\* array.  Here a history is such a header and heap holds the arrays.
MaxSliceLen == 4
MaxSnapshots == 2
MaxArrays == 4

\* The elements a slice header shows.
Elems(h, s) == SubSeq(h[s.arr], 1, s.len)

\* The node as a reader of its fields sees it.
View(h, n) ==
    [n EXCEPT !.CoherenceHistory = Elems(h, @),
              !.Metrics.CoherenceHistory = Elems(h, @)]

\* The network as a reader sees it.
ViewNet(h, nodes) == [id \in DOMAIN nodes |-> View(h, nodes[id])]

\* []float64{v}: a new array of one element
SliceLiteral(h, v) ==
    [heap |-> Append(h, <<v>>), slice |-> [arr |-> Len(h) + 1, len |-> 1, cap |-> 1]]

\* append(s, v) of Go: within the capacity the element is written into the
\* array s shares; beyond it the elements move to a new array of twice the
\* capacity.
GoAppend(h, s, v) ==
    IF s.len < s.cap
    THEN [heap |-> [h EXCEPT ![s.arr][s.len + 1] = v],
          slice |-> [s EXCEPT !.len = @ + 1]]
    ELSE [heap |-> Append(h, Elems(h, s) \o <<v>>
                             \o [i \in 1..(2 * s.cap - s.len - 1) |-> 0]),
          slice |-> [arr |-> Len(h) + 1, len |-> s.len + 1, cap |-> 2 * s.cap]]

\* Values the caller appends to a snapshot.
SnapshotUpdates == {500, 600}

\* metrics := InitializeQuantumMetricsWithGlyph(glyph): CoherenceHistory is
\* the literal []float64{0.99}
SnapInitializeMetrics ==
    \E r \in {SliceLiteral(heap, 990)} :
        /\ metrics = <<>>
        /\ nextID <= 1
        /\ metrics' = <<[InitializeQuantumMetricsWithGlyph(
                             LyraGlyph(Trust, 1000, 1000, 1234567890))
                         EXCEPT !.CoherenceHistory = r.slice]>>
        /\ heap' = r.heap
        /\ ret' = Ret("InitializeQuantumMetricsWithGlyph", 0, 0, "nil", <<>>)
        /\ UNCHANGED <<net, nextID, node, entropyPool, pc, loc>>

\* node := GenerateMeshNode(metrics)
SnapGenerateMeshNode ==
    /\ metrics # <<>>
    /\ nextID <= 1
    /\ Len(node) < MaxSnapshots
    /\ \E r \in {GoAppend(heap, metrics[1].CoherenceHistory, metrics[1].Coherence)} :
          /\ node' = Append(node, [ID |-> nextID,
                                   Metrics |-> metrics[1],
                                   Pattern |-> GeneratePattern(metrics[1]),
                                   CoherenceHistory |-> r.slice,
                                   State |-> "active",
                                   Timestamp |-> metrics[1].Timestamp])
          /\ heap' = r.heap
    /\ nextID' = nextID + 1
    /\ ret' = Ret("GenerateMeshNode", nextID, 0, "nil", <<>>)
    /\ UNCHANGED <<net, metrics, entropyPool, pc, loc>>

\* snapshot := net.Nodes[id]
SnapReadNode ==
    \E id \in DOMAIN net :
        /\ Len(node) < MaxSnapshots
        /\ node' = Append(node, net[id])
        /\ ret' = Ret("ReadNode", id, 0, "nil", <<>>)
        /\ UNCHANGED <<net, nextID, metrics, entropyPool, pc, loc, heap>>

\* UpdateCoherenceHistory(&snapshot, v) on the k-th variable of the caller;
\* ret.b is what the caller could read before the call.
SnapUpdateCoherenceHistory ==
    \E k \in 1..Len(node), v \in SnapshotUpdates :
        /\ node[k].CoherenceHistory.len < MaxSliceLen
        /\ node[k].CoherenceHistory.len = node[k].CoherenceHistory.cap
               => Len(heap) < MaxArrays
        /\ \E r \in {GoAppend(heap, node[k].CoherenceHistory, v)} :
              /\ node' = [node EXCEPT ![k].CoherenceHistory = r.slice,
                                      ![k].Metrics.Coherence = v]
              /\ heap' = r.heap
        /\ ret' = Ret("UpdateCoherenceHistory", k,
                      [node |-> View(heap, node[k]), value |-> v,
                       net |-> ViewNet(heap, net)], "nil", <<>>)
        /\ UNCHANGED <<net, nextID, metrics, entropyPool, pc, loc>>

\* net.AddNode(snapshot); the variable is not used again.
SnapAddNode ==
    \E k \in 1..Len(node) :
        /\ net' = AddNode(net, node[k])
        /\ node' = SubSeq(node, 1, k - 1) \o SubSeq(node, k + 1, Len(node))
        /\ ret' = Ret("AddNode", node[k].ID, 0, "nil", <<>>)
        /\ UNCHANGED <<nextID, metrics, entropyPool, pc, loc, heap>>

NextSnapshot ==
    \/ SnapInitializeMetrics
    \/ SnapGenerateMeshNode
    \/ SnapReadNode
    \/ SnapUpdateCoherenceHistory
    \/ SnapAddNode

\* One caller holding up to MaxSnapshots copies of one node.
SpecSnapshot == Init /\ [][NextSnapshot]_vars

\* --------------------------------------------------- the score's range
\* float64 arguments of ComputeQRE: numbers below, inside and above the
\* range normalize keeps, NaN and the infinities.
RangeEntropyScores == {Num(980), Num(-5000), NaN}
RangePhases == {Num(1571), Inf(1)}
RangePhaseShifts == {Num(785), Num(0)}
RangeIntensities == {Num(1000), Num(-1000), Inf(1)}
RangeMeshScores == {Num(1000), Num(0), Num(5000)}
RangeResonances == {Num(1000), Num(-1000), Num(-2000), NaN, Inf(1)}

\* qre := ComputeQRE(metrics, glyph, meshScore, resonance); ret.b holds the
\* five factors, their sum and the score.
CallComputeQREOnFloats ==
    \E es \in RangeEntropyScores, ph \in RangePhases, ps \in RangePhaseShifts,
       it \in RangeIntensities, ms \in RangeMeshScores, r \in RangeResonances :
        \E f \in {QREFactors([EntropyScore |-> es, EntropyQuality |-> Num(990),
                              PhaseShift |-> ps, Phase |-> ph],
                             [Intensity |-> it, EthicsScore |-> Num(1000)], ms, r)} :
            /\ ret' = Ret("ComputeQRE",
                          [EntropyScore |-> es, Phase |-> ph, PhaseShift |-> ps,
                           Intensity |-> it, meshScore |-> ms, resonance |-> r],
                          [factors |-> f, sum |-> QRESum(f), score |-> QREScore(f)],
                          "nil", <<>>)
            /\ UNCHANGED <<net, nextID, metrics, node, entropyPool, pc, loc, heap>>

NextRange == CallComputeQREOnFloats

\* One caller scoring float64 arguments of every class.
SpecRange == Init /\ [][NextRange]_vars

\* ---------------------------------------------------------- harmonics
\* harmonics := GenerateDynamicHarmonics(glyph); ret.errs keeps the glyph and
\* the result of the call before, when that was one.
CallGenerateDynamicHarmonics ==
    \E g \in QREGlyphs :
        /\ ret' = Ret("GenerateDynamicHarmonics", g, GenerateDynamicHarmonics(g), "nil",
                      IF ret.op = "GenerateDynamicHarmonics" THEN <<ret.a, ret.b>>
                      ELSE <<>>)
        /\ UNCHANGED <<net, nextID, metrics, node, entropyPool, pc, loc, heap>>

\* harmonics := GenerateHarmonics()
CallGenerateHarmonics ==
    /\ ret' = Ret("GenerateHarmonics", 0, GenerateHarmonics, "nil", <<>>)
    /\ UNCHANGED <<net, nextID, metrics, node, entropyPool, pc, loc, heap>>

NextHarmonics ==
    \/ CallGenerateDynamicHarmonics
    \/ CallGenerateHarmonics

\* One caller generating harmonics time and again.
SpecHarmonics == Init /\ [][NextHarmonics]_vars

\* ---------------------------------------- propagation over shared arrays
\* GenerateMeshNode copies the metrics record, the header of its coherence
\* history included, so nodes generated from one record, or from the record
\* of a stored node, keep histories over one backing array.
MaxSharedArrays == 6
MaxMeshNodes == 3

\* core/mesh.go GenerateMeshNode with the histories as slice headers: the
\* node and the arrays after the call.
GenerateMeshNodeOnHeap(h, m, id) ==
    LET r == GoAppend(h, m.CoherenceHistory, m.Coherence)
    IN [heap |-> r.heap,
        node |-> [ID |-> id,
                  Metrics |-> m,
                  Pattern |-> GeneratePattern(m),
                  CoherenceHistory |-> r.slice,
                  State |-> "active",
                  Timestamp |-> m.Timestamp]]

\* core/mesh.go MeshNetwork.PropagateMetrics with the histories as slice
\* headers: the network, the arrays and the error.
PropagateMetricsOnHeap(h, nodes, fromID, toID) ==
    IF fromID \notin DOMAIN nodes \/ toID \notin DOMAIN nodes
    THEN [nodes |-> nodes, heap |-> h, err |-> "NodeNotFound"]
    ELSE LET r == GoAppend(h, nodes[toID].Metrics.CoherenceHistory,
                           nodes[fromID].Metrics.Coherence)
             toNode == [nodes[toID] EXCEPT
                           !.Metrics.CoherenceHistory = r.slice,
                           !.Metrics.ValidationScore =
                               RoundDiv(@ + nodes[fromID].Metrics.ValidationScore, 2)]
         IN [nodes |-> Store(nodes, toID, toNode),
             heap |-> r.heap,
             err |-> ValidateMeshNode(View(r.heap, toNode), DefaultMeshScore,
                                      DefaultGlyph(toNode),
                                      CalculateMeshScore(FixedMeshMetrics))]

\* net.AddNode(GenerateMeshNode(metrics)), the metrics initialized with the
\* tests' trust glyph and modulated with a non-trust glyph or not at all.
ShareAddGeneratedNode ==
    \E modulate \in BOOLEAN :
        LET lit == SliceLiteral(heap, 990)
            fresh == [InitializeQuantumMetricsWithGlyph(
                          LyraGlyph(Trust, 1000, 1000, 1234567890))
                      EXCEPT !.CoherenceHistory = lit.slice]
            m == IF modulate
                 THEN ModulateQuantumMetricsWithLyra(fresh, LyraGlyph(Joy, 1000, 900, 30))
                 ELSE fresh
        IN \E g \in {GenerateMeshNodeOnHeap(lit.heap, m, nextID)} :
              /\ nextID < MaxMeshNodes
              /\ Len(heap) + 2 <= MaxSharedArrays
              /\ net' = AddNode(net, g.node)
              /\ heap' = g.heap
              /\ nextID' = nextID + 1
              /\ ret' = Ret("AddNode", nextID, 0, "nil", <<>>)
              /\ UNCHANGED <<metrics, node, entropyPool, pc, loc>>

\* net.AddNode(GenerateMeshNode(net.Nodes[id].Metrics)): a node generated
\* from the metrics of a stored one.
ShareAddNodeFromStoredMetrics ==
    \E id \in DOMAIN net :
        \E g \in {GenerateMeshNodeOnHeap(heap, net[id].Metrics, nextID)} :
            /\ nextID <= MaxMeshNodes
            /\ Len(g.heap) <= MaxSharedArrays
            /\ net' = AddNode(net, g.node)
            /\ heap' = g.heap
            /\ nextID' = nextID + 1
            /\ ret' = Ret("AddNode", nextID, id, "nil", <<>>)
            /\ UNCHANGED <<metrics, node, entropyPool, pc, loc>>

\* err := net.PropagateMetrics(fromID, toID); ret.pre is the network the
\* caller could read before the call.
SharePropagateMetrics ==
    \E fromID \in DOMAIN net, toID \in DOMAIN net :
        \E r \in {PropagateMetricsOnHeap(heap, net, fromID, toID)} :
            /\ net[toID].Metrics.CoherenceHistory.len < MaxSliceLen
            /\ Len(r.heap) <= MaxSharedArrays
            /\ net' = r.nodes
            /\ heap' = r.heap
            /\ ret' = [Ret("PropagateMetrics", fromID, toID, r.err, <<>>)
                       EXCEPT !.pre = ViewNet(heap, net)]
            /\ UNCHANGED <<nextID, metrics, node, entropyPool, pc, loc>>

NextShare ==
    \/ ShareAddGeneratedNode
    \/ ShareAddNodeFromStoredMetrics
    \/ SharePropagateMetrics

\* Propagation among nodes, some generated from the metrics of others.
SpecShare == Init /\ [][NextShare]_vars

\* ------------------------------------------------- validation by value
\* QALXValidateQuantumSecurity and ValidateMeshNode take the metrics, the
\* node and the glyph by value: the caller's variables after the call are
\* the ones it passed.
\* A gate that raises the ethics score of the caller's glyph.
ValidateQuantumSecurityCallOnCallersGlyph(m, resonance, glyph, meshScore) ==
    [ok |-> QALXValidateQuantumSecurity(m, resonance, glyph, meshScore),
     metrics |-> m,
     glyph |-> IF glyph.Emotion # Trust THEN glyph
               ELSE IF glyph.Intensity < 900 /\ m.Coherence < 900
               THEN [glyph EXCEPT !.EthicsScore = @ + Mul(20, meshScore)]
               ELSE [glyph EXCEPT !.EthicsScore = @ + Mul(10, meshScore)]]

\* core/entropy.go QALXValidateQuantumSecurity as a call: the answer, and the
\* caller's metrics and glyph after it.
ValidateQuantumSecurityCall(m, resonance, glyph, meshScore) ==
    [ok |-> QALXValidateQuantumSecurity(m, resonance, glyph, meshScore),
     metrics |-> m,
     glyph |-> glyph]

\* core/mesh.go ValidateMeshNode as a call: the error, and the caller's node
\* and glyph after it.
ValidateMeshNodeCall(n, resonance, glyph, meshScore) ==
    [err |-> ValidateMeshNode(n, resonance, glyph, meshScore),
     node |-> n,
     glyph |-> IF n.Metrics.Coherence < MinCoherence \/ n.State # "active"
               THEN glyph
               ELSE ValidateQuantumSecurityCall(n.Metrics, resonance, glyph,
                                                meshScore).glyph]

ByValueResonances == {400, 1000}

\* The result of the call before, when it was a call of op with the arguments
\* args.
CallBefore(op, args) == IF ret.op = op /\ ret.a = args THEN <<ret.b>> ELSE <<>>

\* ok := QALXValidateQuantumSecurity(metrics, resonance, glyph, meshScore);
\* ret.errs is what the caller holds after the call.
CallValidateQuantumSecurityByValue ==
    \E m \in GateMetrics, r \in ByValueResonances, g \in GateGlyphs, ms \in MeshScores :
        \E c \in {ValidateQuantumSecurityCall(m, r, g, ms)} :
            /\ ret' = Ret("QALXValidateQuantumSecurity",
                          [metrics |-> m, resonance |-> r, glyph |-> g, meshScore |-> ms],
                          c.ok, "nil",
                          [metrics |-> c.metrics, glyph |-> c.glyph,
                           before |-> CallBefore("QALXValidateQuantumSecurity",
                                                 [metrics |-> m, resonance |-> r,
                                                  glyph |-> g, meshScore |-> ms])])
            /\ UNCHANGED <<net, nextID, metrics, node, entropyPool, pc, loc, heap>>

\* err := ValidateMeshNode(node, resonance, glyph, meshScore) on the node the
\* caller holds.
CallValidateMeshNodeByValue ==
    \E r \in ByValueResonances, g \in Glyphs, ms \in MeshScores :
        /\ node # <<>>
        /\ \E c \in {ValidateMeshNodeCall(node[1], r, g, ms)} :
              /\ node' = <<c.node>>
              /\ ret' = Ret("ValidateMeshNode",
                            [node |-> node[1], resonance |-> r, glyph |-> g,
                             meshScore |-> ms],
                            c.err, "nil",
                            [glyph |-> c.glyph,
                             before |-> CallBefore("ValidateMeshNode",
                                                   [node |-> node[1], resonance |-> r,
                                                    glyph |-> g, meshScore |-> ms])])
        /\ UNCHANGED <<net, nextID, metrics, entropyPool, pc, loc, heap>>

NextByValue ==
    \/ CallInitializeMetrics
    \/ CallGenerateMeshNode
    \/ CallAddNode
    \/ CallReadNode
    \/ CallRevokeNode
    \/ CallValidateQuantumSecurityByValue
    \/ CallValidateMeshNodeByValue

\* One caller validating the glyphs and nodes it holds.
SpecByValue == Init /\ [][NextByValue]_vars

\* ------------------------------------------------ the mesh score's range
\* float64 inputs of CalculateMeshScore: those of the literal, numbers below
\* and above the range Normalize keeps, NaN and the infinities.
MeshTrustWeights == {Num(900), Num(-5000), Num(1000), NaN}
MeshUptimes == {Num(99000), Num(0), Inf(1)}
MeshPathVariances == {Num(2000), Num(0), Num(50000)}
MeshGlyphCoherences == {Num(950), Num(2000), Inf(-1)}
MeshValidationRates == {Num(980), Num(0), Num(1000)}
MeshReconfigTimes == {Num(1200), Num(0), Num(20000), NaN}

\* The literal of PropagateMetrics and ValidateAllNodes as float64 values.
FixedMeshMetricsOnFloats ==
    [AvgTrustWeight |-> Num(900), UptimePercent |-> Num(99000),
     PathVariance |-> Num(2000), GlyphCoherence |-> Num(950),
     QREValidationRate |-> Num(980), ReconfigTime |-> Num(1200)]

\* score := CalculateMeshScore(metrics)
CallCalculateMeshScore ==
    \E tw \in MeshTrustWeights, up \in MeshUptimes, pv \in MeshPathVariances,
       gc \in MeshGlyphCoherences, vr \in MeshValidationRates,
       rt \in MeshReconfigTimes :
        \E m \in {[AvgTrustWeight |-> tw, UptimePercent |-> up, PathVariance |-> pv,
                   GlyphCoherence |-> gc, QREValidationRate |-> vr,
                   ReconfigTime |-> rt]} :
            /\ ret' = Ret("CalculateMeshScore", m, CalculateMeshScoreOnFloats(m),
                          "nil", <<>>)
            /\ UNCHANGED <<net, nextID, metrics, node, entropyPool, pc, loc, heap>>

NextMeshScore == CallCalculateMeshScore

\* One caller scoring mesh metrics of every class.
SpecMeshScore == Init /\ [][NextMeshScore]_vars

NextHistory ==
    \/ CallInitializeMetrics
    \/ CallModulate
    \/ CallGenerateMeshNode
    \/ CallUpdateCoherenceHistory
    \/ CallAddNode
    \/ CallPropagateMetrics

\* The operations that write a coherence or a coherence history.
SpecHistory == Init /\ [][NextHistory]_vars

\* ------------------------------------------- concurrent key derivations
\* The code takes no lock: a goroutine is interleaved with the others
\* between any two accesses of the global entropyPool.
\* Arguments of the concurrent QALXGenerateSecureKey calls.
KeyMetrics ==
    {InitializeQuantumMetricsWithGlyph(LyraGlyph(Trust, 1000, 1000, 1234567890)),
     [InitializeQuantumMetricsWithGlyph(LyraGlyph(Trust, 1000, 1000, 1234567890))
         EXCEPT !.Coherence = 500]}
KeyGlyphs == {LyraGlyph(Trust, 1000, 1000, 1234567890), LyraGlyph(Joy, 1000, 900, 30)}
KeyCalls ==
    {[op |-> "QALXGenerateSecureKey", metrics |-> m, glyph |-> g, meshScore |-> ms,
      quantumEntropy |-> <<>>, read |-> <<>>, mixedEntropy |-> <<>>,
      key |-> <<>>, err |-> ""] : m \in KeyMetrics, g \in KeyGlyphs, ms \in MeshScores}

InitKey ==
    /\ net = NewMeshNetwork
    /\ nextID = 1
    /\ metrics = <<>>
    /\ node = <<>>
    /\ entropyPool = initializeEntropyPool
    /\ heap = <<>>
    /\ ret = Ret("start", 0, 0, "nil", <<>>)
    /\ pc = [p \in Procs |-> "start"]
    /\ loc \in [Procs -> KeyCalls]

\* QALXGenerateSecureKey, lines 40-43: the coherence check and the harvest.
KeyHarvest(p) ==
    /\ pc[p] = "start" /\ loc[p].op = "QALXGenerateSecureKey"
    /\ IF loc[p].metrics.Coherence < MinCoherence
       THEN /\ loc' = [loc EXCEPT ![p].err = "ErrInsufficientCoherence"]
            /\ pc' = [pc EXCEPT ![p] = "done"]
       ELSE /\ loc' = [loc EXCEPT
                          ![p].quantumEntropy = harvestQuantumEntropy(loc[p].metrics)]
            /\ pc' = [pc EXCEPT ![p] = "mixRead"]
    /\ UNCHANGED <<net, nextID, metrics, node, ret, entropyPool, heap>>

\* mixEntropy, line 70: h.Write(entropyPool) reads the global.
KeyMixRead(p) ==
    /\ pc[p] = "mixRead"
    /\ loc' = [loc EXCEPT ![p].read = <<entropyPool>>]
    /\ pc' = [pc EXCEPT ![p] = "mixWrite"]
    /\ UNCHANGED <<net, nextID, metrics, node, ret, entropyPool, heap>>

\* mixEntropy, lines 71-77: entropyPool = h.Sum(nil) writes the global.
KeyMixWrite(p) ==
    /\ pc[p] = "mixWrite"
    /\ entropyPool' = mixEntropy(loc[p].read[1], loc[p].quantumEntropy,
                                 loc[p].glyph, loc[p].meshScore)
    /\ pc' = [pc EXCEPT ![p] = "mixReturn"]
    /\ UNCHANGED <<net, nextID, metrics, node, ret, loc, heap>>

\* mixEntropy, line 78: return entropyPool reads the global again.
KeyMixReturn(p) ==
    /\ pc[p] = "mixReturn"
    /\ loc' = [loc EXCEPT ![p].mixedEntropy = <<entropyPool>>]
    /\ pc' = [pc EXCEPT ![p] = "amplify"]
    /\ UNCHANGED <<net, nextID, metrics, node, ret, entropyPool, heap>>

\* QALXGenerateSecureKey, line 45: the key amplified from what mixEntropy
\* returned.
KeyAmplify(p) ==
    /\ pc[p] = "amplify"
    /\ LET amplified == amplifyQuantumKey(loc[p].mixedEntropy[1], loc[p].metrics,
                                          loc[p].glyph)
       IN loc' = [loc EXCEPT ![p].key = amplified.key, ![p].err = amplified.err]
    /\ pc' = [pc EXCEPT ![p] = "done"]
    /\ UNCHANGED <<net, nextID, metrics, node, ret, entropyPool, heap>>

NextKey ==
    \/ \E p \in Procs : KeyHarvest(p)
    \/ \E p \in Procs : KeyMixRead(p)
    \/ \E p \in Procs : KeyMixWrite(p)
    \/ \E p \in Procs : KeyMixReturn(p)
    \/ \E p \in Procs : KeyAmplify(p)

\* Goroutines each deriving one key from the shared pool.
SpecKey == InitKey /\ [][NextKey]_vars

\* The pools the calls of the goroutines in todo leave when they run one
\* after the other, in every order, from pool.
RECURSIVE SequentialPools(_, _)
SequentialPools(pool, todo) ==
    IF todo = {} THEN {pool}
    ELSE UNION {SequentialPools(
                    QALXGenerateSecureKey(pool, loc[p].metrics, loc[p].glyph,
                                          loc[p].meshScore).pool,
                    todo \ {p}) : p \in todo}

\* --------------------------------------- concurrent callers of one network
\* MeshNetwork holds no lock either: a goroutine is interleaved with the
\* others between any two accesses of net.Nodes.
\* The network the goroutines share: two active nodes added by AddNode.
SharedNetwork ==
    LET m == InitializeQuantumMetricsWithGlyph(LyraGlyph(Trust, 1000, 1000, 1234567890))
    IN AddNode(AddNode(NewMeshNetwork, GenerateMeshNode(m, 1)),
               UpdateCoherenceHistory(GenerateMeshNode(m, 2), 500))
\* The node a concurrent AddNode adds.
AddedNode ==
    GenerateMeshNode(
        InitializeQuantumMetricsWithGlyph(LyraGlyph(Trust, 1000, 1000, 1234567890)),
        MaxNodes + 1)

\* A call and its locals: a, b the identifiers passed, n1, n2 the node
\* copies read, ok1 the source's presence, dom the identifiers present when
\* a range loop started, seen those it has produced, out the result.
NetCall(op, a, b) ==
    [op |-> op, a |-> a, b |-> b, n1 |-> ZeroNode, n2 |-> ZeroNode, ok1 |-> FALSE,
     dom |-> {}, seen |-> {}, out |-> <<>>]

\* The identifiers present when the range loop of p started.
RangeStart(p) == IF pc[p] = "start" THEN DOMAIN net ELSE loc[p].dom
NetCalls ==
    {NetCall("AddNode", MaxNodes + 1, 0), NetCall("ValidateAllNodes", 0, 0)}
    \cup {NetCall("PropagateMetrics", a, b) : a, b \in AnyIDs}
    \cup {NetCall("RevokeNode", a, 0) : a \in AnyIDs}
    \cup {NetCall("PropagateRevocation", a, 0) : a \in AnyIDs}

InitConc ==
    /\ net = SharedNetwork
    /\ nextID = MaxNodes + 2
    /\ metrics = <<>>
    /\ node = <<>>
    /\ entropyPool = initializeEntropyPool
    /\ heap = <<>>
    /\ ret = Ret("start", 0, 0, "nil", <<>>)
    /\ pc = [p \in Procs |-> "start"]
    /\ loc \in [Procs -> NetCalls]

\* AddNode, line 169: the one map write.
AddNodeWrite(p) ==
    /\ pc[p] = "start" /\ loc[p].op = "AddNode"
    /\ net' = AddNode(net, AddedNode)
    /\ pc' = [pc EXCEPT ![p] = "done"]
    /\ UNCHANGED <<nextID, metrics, node, ret, entropyPool, loc, heap>>

\* PropagateMetrics, line 175: fromNode, exists1 := net.Nodes[fromID]
PropagateReadFrom(p) ==
    /\ pc[p] = "start" /\ loc[p].op = "PropagateMetrics"
    /\ loc' = [loc EXCEPT
                  ![p].n1 = IF loc[p].a \in DOMAIN net THEN net[loc[p].a] ELSE ZeroNode,
                  ![p].ok1 = loc[p].a \in DOMAIN net]
    /\ pc' = [pc EXCEPT ![p] = "readTo"]
    /\ UNCHANGED <<net, nextID, metrics, node, ret, entropyPool, heap>>

\* PropagateMetrics, lines 176-179: toNode, exists2 := net.Nodes[toID] and
\* the return of NodeNotFound.
PropagateReadTo(p) ==
    /\ pc[p] = "readTo"
    /\ IF loc[p].ok1 /\ loc[p].b \in DOMAIN net
       THEN /\ loc' = [loc EXCEPT ![p].n2 = net[loc[p].b]]
            /\ pc' = [pc EXCEPT ![p] = "writeTo"]
       ELSE /\ loc' = [loc EXCEPT ![p].out = "NodeNotFound"]
            /\ pc' = [pc EXCEPT ![p] = "done"]
    /\ UNCHANGED <<net, nextID, metrics, node, ret, entropyPool, heap>>

\* PropagateMetrics, lines 180-194: the copy is changed, written back at
\* line 182 and validated.
PropagateWriteBack(p) ==
    /\ pc[p] = "writeTo"
    /\ LET toNode == PropagatedNode(loc[p].n1, loc[p].n2)
       IN /\ net' = Store(net, loc[p].b, toNode)
          /\ loc' = [loc EXCEPT
                        ![p].out = ValidateMeshNode(toNode, DefaultMeshScore,
                                       DefaultGlyph(toNode),
                                       CalculateMeshScore(FixedMeshMetrics))]
    /\ pc' = [pc EXCEPT ![p] = "done"]
    /\ UNCHANGED <<nextID, metrics, node, ret, entropyPool, heap>>

\* RevokeNode, lines 220-222: node, exists := net.Nodes[nodeID]
RevokeRead(p) ==
    /\ pc[p] = "start" /\ loc[p].op = "RevokeNode"
    /\ IF loc[p].a \in DOMAIN net
       THEN /\ loc' = [loc EXCEPT ![p].n1 = net[loc[p].a]]
            /\ pc' = [pc EXCEPT ![p] = "revoke"]
       ELSE /\ pc' = [pc EXCEPT ![p] = "done"]
            /\ UNCHANGED loc
    /\ UNCHANGED <<net, nextID, metrics, node, ret, entropyPool, heap>>

\* RevokeNode, lines 223-227: the copy is revoked and written back.
RevokeWriteBack(p) ==
    /\ pc[p] = "revoke"
    /\ net' = Store(net, loc[p].a, Revoked(loc[p].n1))
    /\ pc' = [pc EXCEPT ![p] = "done"]
    /\ UNCHANGED <<nextID, metrics, node, ret, entropyPool, loc, heap>>

\* PropagateRevocation, line 233: the range loop produces the next entry,
\* a copy of the node, or ends; an entry added since the loop started may be
\* produced or skipped.
RevocationRange(p) ==
    /\ pc[p] \in {"start", "range"} /\ loc[p].op = "PropagateRevocation"
    /\ \/ /\ RangeStart(p) \subseteq loc[p].seen
          /\ pc' = [pc EXCEPT ![p] = "done"]
          /\ UNCHANGED loc
       \/ \E id \in DOMAIN net \ loc[p].seen :
              /\ loc' = [loc EXCEPT ![p].dom = RangeStart(p),
                                    ![p].seen = @ \cup {id}, ![p].b = id,
                                    ![p].n1 = net[id]]
              /\ pc' = [pc EXCEPT ![p] = IF id # loc[p].a THEN "revokeEntry"
                                                           ELSE "range"]
    /\ UNCHANGED <<net, nextID, metrics, node, ret, entropyPool, heap>>

\* PropagateRevocation, lines 235-239: the copy is revoked and written back.
RevocationWriteBack(p) ==
    /\ pc[p] = "revokeEntry"
    /\ net' = Store(net, loc[p].b, Revoked(loc[p].n1))
    /\ pc' = [pc EXCEPT ![p] = "range"]
    /\ UNCHANGED <<nextID, metrics, node, ret, entropyPool, loc, heap>>

\* ValidateAllNodes, lines 201-213: the range loop produces the next entry
\* and validates the copy, or ends.
ValidateRange(p) ==
    /\ pc[p] \in {"start", "range"} /\ loc[p].op = "ValidateAllNodes"
    /\ \/ /\ RangeStart(p) \subseteq loc[p].seen
          /\ pc' = [pc EXCEPT ![p] = "done"]
          /\ UNCHANGED loc
       \/ \E id \in DOMAIN net \ loc[p].seen :
              /\ loc' = [loc EXCEPT
                            ![p].dom = RangeStart(p),
                            ![p].seen = @ \cup {id},
                            ![p].out = Append(@, <<id,
                                ValidateMeshNode(net[id], DefaultMeshScore,
                                    DefaultGlyph(net[id]),
                                    CalculateMeshScore(FixedMeshMetrics))>>)]
              /\ pc' = [pc EXCEPT ![p] = "range"]
    /\ UNCHANGED <<net, nextID, metrics, node, ret, entropyPool, heap>>

NextConc ==
    \/ \E p \in Procs : AddNodeWrite(p)
    \/ \E p \in Procs : PropagateReadFrom(p)
    \/ \E p \in Procs : PropagateReadTo(p)
    \/ \E p \in Procs : PropagateWriteBack(p)
    \/ \E p \in Procs : RevokeRead(p)
    \/ \E p \in Procs : RevokeWriteBack(p)
    \/ \E p \in Procs : RevocationRange(p)
    \/ \E p \in Procs : RevocationWriteBack(p)
    \/ \E p \in Procs : ValidateRange(p)

\* Goroutines each running one operation on the shared network.
SpecConc == InitConc /\ [][NextConc]_vars

\* The operation of a goroutine run alone on nodes.
RunAlone(nodes, call) ==
    CASE call.op = "AddNode" -> AddNode(nodes, AddedNode)
      [] call.op = "PropagateMetrics" -> PropagateMetrics(nodes, call.a, call.b).nodes
      [] call.op = "RevokeNode" -> RevokeNode(nodes, call.a, "")
      [] call.op = "PropagateRevocation" -> PropagateRevocation(nodes, call.a)
      [] OTHER -> nodes

\* The networks the operations of the goroutines in todo leave when they
\* run one after the other, in every order, from nodes.
RECURSIVE SequentialNetworks(_, _)
SequentialNetworks(nodes, todo) ==
    IF todo = {} THEN {nodes}
    ELSE UNION {SequentialNetworks(RunAlone(nodes, loc[p]), todo \ {p}) : p \in todo}

\* ------------------------------------------------------------- properties
Last(seq) == seq[Len(seq)]
OneRevokedSuffix(pattern) ==
    HasSuffix(pattern, RevokedSuffix) /\ Count(pattern, RevokedSuffix) = 1

\* C1: after a RevokeNode call on an identifier of the network, the second
\* and later calls included, the stored node is revoked and its pattern
\* carries the ":revoked" suffix exactly once.
RevokeNodeIdempotent ==
    (ret.op = "RevokeNode" /\ ret.a \in DOMAIN net) =>
        /\ net[ret.a].State = "revoked"
        /\ OneRevokedSuffix(net[ret.a].Pattern)

\* A second RevokeNode call in a row on a stored node has returned.
RevokedTwice == ret.op = "RevokeNode" /\ ret.b = 2 /\ ret.a \in DOMAIN net

\* C2: once the node stored under an identifier is revoked, it is revoked in
\* every later state.
RevokedIsTerminal ==
    [][\A id \in DOMAIN net :
          net[id].State = "revoked" =>
              (id \in DOMAIN net' /\ net'[id].State = "revoked")]_vars

\* C3: ValidateMeshNode reports the first failing check in the order
\* coherence, state, gate, and nil when none fails.
ValidateReportsFirstFailure ==
    ret.op = "ValidateMeshNode" =>
        LET n == node[1]
            low == n.Metrics.Coherence < MinCoherence
            inactive == n.State # "active"
            gate == QALXValidateQuantumSecurity(n.Metrics, ret.b[1], ret.b[2], ret.b[3])
        IN /\ low => ret.err = "CoherenceTooLow"
           /\ (~low /\ inactive) => ret.err = "NodeNotActive"
           /\ (~low /\ ~inactive /\ ~gate) => ret.err = "SecurityGateFailed"
           /\ (~low /\ ~inactive /\ gate) => ret.err = "nil"

\* A node below the coherence bound and revoked, validated with maximal
\* resonance and mesh score: the coherence failure is the one reported.
LowCoherenceReportedFirst ==
    /\ ret.op = "ValidateMeshNode"
    /\ node[1].Metrics.Coherence < MinCoherence
    /\ node[1].State = "revoked"
    /\ ret.b[1] = 1000 /\ ret.b[3] = 1000
    /\ ret.err = "CoherenceTooLow"

\* C4 as stated: a revoked node fails with NodeNotActive whatever its
\* coherence.
RevokedAlwaysNotActive ==
    (ret.op = "ValidateMeshNode" /\ node[1].State = "revoked") =>
        ret.err = "NodeNotActive"

\* C4 as amended: a revoked node never validates; it fails with NodeNotActive
\* when its coherence is at least MinCoherence and with CoherenceTooLow below.
RevokedNeverValid ==
    (ret.op = "ValidateMeshNode" /\ node[1].State = "revoked") =>
        ret.err = IF node[1].Metrics.Coherence >= MinCoherence
                  THEN "NodeNotActive" ELSE "CoherenceTooLow"

\* A revoked node at the coherence bound, validated with inputs the gate
\* rejects, fails with NodeNotActive.
RevokedReportedNotActive ==
    /\ ret.op = "ValidateMeshNode"
    /\ node[1].State = "revoked"
    /\ node[1].Metrics.Coherence = MinCoherence
    /\ ~QALXValidateQuantumSecurity(node[1].Metrics, ret.b[1], ret.b[2], ret.b[3])
    /\ ret.err = "NodeNotActive"

\* A metrics record, and a node, whose coherence history ends with the
\* current coherence.
MetricsConsistent(m) ==
    m.CoherenceHistory # <<>> /\ Last(m.CoherenceHistory) = m.Coherence
NodeConsistent(n) ==
    n.CoherenceHistory # <<>> /\ Last(n.CoherenceHistory) = n.Metrics.Coherence

ModulationKeepsHistory ==
    [][(ret'.op = "ModulateQuantumMetricsWithLyra" /\ MetricsConsistent(metrics[1])) =>
           MetricsConsistent(metrics'[1])]_vars
PropagationKeepsHistory ==
    [][(/\ ret'.op = "PropagateMetrics"
        /\ ret'.err # "NodeNotFound"
        /\ MetricsConsistent(net[ret'.b].Metrics)) =>
           MetricsConsistent(net'[ret'.b].Metrics)]_vars

PropagationOutcome(n) ==
    ValidateMeshNode(n, DefaultMeshScore, DefaultGlyph(n),
                     CalculateMeshScore(FixedMeshMetrics))

PropagateMetricsMissingNode ==
    (/\ ret.op = "PropagateMetrics"
     /\ (ret.a \notin DOMAIN ret.pre \/ ret.b \notin DOMAIN ret.pre)) =>
        (ret.err = "NodeNotFound" /\ net = ret.pre)

\* A propagation from a stored node to an identifier no node carries has
\* returned NodeNotFound.
MissingDestinationReported ==
    /\ ret.op = "PropagateMetrics" /\ ret.err = "NodeNotFound"
    /\ ret.a \in DOMAIN ret.pre /\ ret.b \notin DOMAIN ret.pre

\* C10: a PropagateRevocation has left every node but the named one revoked
\* with exactly one ":revoked" suffix, those revoked before included, has
\* kept the named node's state and pattern, and has revoked every node when
\* the named identifier is absent.
PropagateRevocationRevokesOthers ==
    ret.op = "PropagateRevocation" =>
        /\ DOMAIN net = DOMAIN ret.pre
        /\ \A id \in DOMAIN net :
               IF id # ret.a
               THEN /\ net[id].State = "revoked"
                    /\ OneRevokedSuffix(net[id].Pattern)
               ELSE /\ net[id].State = ret.pre[id].State
                    /\ net[id].Pattern = ret.pre[id].Pattern

\* A PropagateRevocation naming one of two stored nodes, the other of them
\* revoked before, has returned: the named node is active, the other one
\* revoked.
OthersRevokedNamedActive ==
    /\ ret.op = "PropagateRevocation"
    /\ ret.a \in DOMAIN net /\ Cardinality(DOMAIN net) = 2
    /\ net[ret.a].State = "active"
    /\ \A id \in DOMAIN net :
           id # ret.a => (ret.pre[id].State = "revoked" /\ net[id].State = "revoked")

\* C5: concurrent key derivations are serialized on the pool: once all have
\* returned, no two successful ones have mixed from the same pool value and
\* the pool is the one some sequential order of the calls leaves.
DerivationsSerialized ==
    (\A p \in Procs : pc[p] = "done") =>
        /\ \A p, q \in Procs :
               (p # q /\ loc[p].err = "nil" /\ loc[q].err = "nil") =>
                   loc[p].read # loc[q].read
        /\ entropyPool \in SequentialPools(initializeEntropyPool, Procs)

\* C6: the operations of concurrent callers are atomic on the network: once
\* all have returned, the network is the one some sequential order of the
\* operations leaves.
NetworkSerializable ==
    (\A p \in Procs : pc[p] = "done") =>
        net \in SequentialNetworks(SharedNetwork, Procs)

\* C11: the network starts empty, no call removes an identifier from it, and
\* only AddNode adds one; a revocation keeps the entry.
IdentifiersNeverRemoved ==
    /\ ret.op = "start" => net = NewMeshNetwork
    /\ DOMAIN ret.pre \subseteq DOMAIN net
    /\ DOMAIN net # DOMAIN ret.pre => ret.op = "AddNode"

\* A RevokeNode of an active node of a network of two has returned: the node
\* is revoked and the network still holds two.
EntryKeptAfterRevocation ==
    /\ ret.op = "RevokeNode" /\ ret.a \in DOMAIN ret.pre
    /\ ret.pre[ret.a].State = "active"
    /\ ret.a \in DOMAIN net /\ net[ret.a].State = "revoked"
    /\ Cardinality(DOMAIN net) = 2

\* C12: QALXGenerateSecureKey returns ErrInsufficientCoherence exactly when
\* the coherence is below MinCoherence, and for every other input, whatever
\* the glyph, the mesh score and the harmonics, a key of 64 bytes and no
\* error, without a panic.
DeriveKeyFailsOnlyOnCoherence ==
    ret.op = "QALXGenerateSecureKey" =>
        IF ret.a.metrics.Coherence < MinCoherence
        THEN ret.err = "ErrInsufficientCoherence"
        ELSE ret.err = "nil" /\ ret.b.size = 64

\* The gate's two thresholds, <<resonance threshold, composite threshold>>,
\* entropy.go lines 94-95 and 98-108.
GateThresholds(m, glyph) ==
    IF glyph.Emotion # Trust THEN <<500, 500>>
    ELSE IF glyph.Intensity < 900 /\ m.Coherence < 900 THEN <<350, 400>>
    ELSE <<400, 450>>

\* The glyph the gate goes on with: the ethics score raised for "trust",
\* entropy.go lines 102 and 108.
GateGlyph(m, glyph, meshScore) ==
    IF glyph.Emotion # Trust THEN glyph
    ELSE IF glyph.Intensity < 900 /\ m.Coherence < 900
    THEN [glyph EXCEPT !.EthicsScore = @ + Mul(20, meshScore)]
    ELSE [glyph EXCEPT !.EthicsScore = @ + Mul(10, meshScore)]

\* The composite of entropy.go line 114.
GateComposite(m, resonance, glyph, meshScore) ==
    LET edge == glyph.Emotion = Trust /\ glyph.Intensity < 900 /\ m.Coherence < 900
        driftComp == IF edge THEN Scale + RoundDiv(Abs(glyph.Timestamp % 1000), 100)
                     ELSE Scale
        volatilityBonus ==
            IF edge THEN Mul(20, Abs(SinDegrees(glyph.Timestamp % 360))) ELSE 0
    IN Mul(Mul(Mul(Mul(m.Coherence, resonance),
                   GateGlyph(m, glyph, meshScore).EthicsScore), meshScore), driftComp)
       + volatilityBonus

\* The QRE of entropy.go line 115, computed with the raised ethics score.
GateQRE(m, resonance, glyph, meshScore) ==
    ComputeQRE(m, GateGlyph(m, glyph, meshScore), meshScore, resonance)

\* C13: the gate answers true exactly when the resonance is at least the
\* resonance threshold, the composite is above the composite threshold and
\* the QRE is above 2.0, the thresholds being (0.5, 0.5) for a tag other than
\* "trust", (0.35, 0.40) for "trust" with intensity and coherence below 0.90
\* and (0.4, 0.45) for any other "trust" glyph; a resonance below its
\* threshold fails the gate whatever the composite and the QRE are.
GateDecision ==
    ret.op = "QALXValidateQuantumSecurity" =>
        LET a == ret.a
            th == GateThresholds(a.metrics, a.glyph)
        IN ret.b = (/\ a.resonance >= th[1]
                    /\ GateComposite(a.metrics, a.resonance, a.glyph, a.meshScore) > th[2]
                    /\ GateQRE(a.metrics, a.resonance, a.glyph, a.meshScore) > 2000)

\* A gate that fails on the resonance alone: composite and QRE are both above
\* their thresholds.
GateFailsOnResonanceAlone ==
    /\ ret.op = "QALXValidateQuantumSecurity"
    /\ ret.b = FALSE
    /\ ret.a.resonance < GateThresholds(ret.a.metrics, ret.a.glyph)[1]
    /\ GateComposite(ret.a.metrics, ret.a.resonance, ret.a.glyph, ret.a.meshScore)
           > GateThresholds(ret.a.metrics, ret.a.glyph)[2]
    /\ GateQRE(ret.a.metrics, ret.a.resonance, ret.a.glyph, ret.a.meshScore) > 2000

\* C14: ValidateMeshNode on a node GenerateMeshNode has just built from the
\* default-initialized metrics, with a "trust" glyph of intensity and ethics
\* score 1.0 at any timestamp, resonance 1.0 and mesh score 1.0, returns nil.
FreshNodeValidates ==
    (/\ ret.op = "ValidateMeshNode"
     /\ ret.b[1] = 1000
     /\ ret.b[2] \in TrustGlyphs
     /\ ret.b[3] = 1000)
        => ret.err = "nil"

\* A fresh node validated with a "trust" glyph whose timestamp is not the one
\* its metrics were initialized with.
FreshNodeValidated ==
    /\ ret.op = "ValidateMeshNode"
    /\ ret.b = <<1000, LyraGlyph(Trust, 1000, 1000, 90), 1000>>
    /\ node[1] = GenerateMeshNode(
                     InitializeQuantumMetricsWithGlyph(
                         LyraGlyph(Trust, 1000, 1000, 1234567890)), node[1].ID)
    /\ ret.err = "nil"

\* C15 as stated: with default metrics and a glyph of intensity and ethics
\* score 1.0, ComputeQRE is at least 2.0 whatever the mesh score and the
\* resonance.
QREAtLeastTwo ==
    (/\ ret.op = "ComputeQRE"
     /\ ret.a.glyph.Intensity = 1000
     /\ ret.a.glyph.EthicsScore = 1000)
        => ret.b >= 2000

\* C15: with default metrics, a glyph of intensity and ethics score 1.0 (any
\* tag, any timestamp) and a mesh score of 1.0, ComputeQRE is at least 2.0
\* for every resonance.
QREAtLeastTwoAtFullMeshScore ==
    (/\ ret.op = "ComputeQRE"
     /\ ret.a.glyph.Intensity = 1000
     /\ ret.a.glyph.EthicsScore = 1000
     /\ ret.a.meshScore = 1000)
        => ret.b >= 2000

\* A score of at least 2.0 at mesh score 1.0 with the weighted resonance at
\* its floor, for a glyph that is not "trust".
QREAtResonanceFloor ==
    /\ ret.op = "ComputeQRE"
    /\ ret.a.glyph = LyraGlyph(Joy, 1000, 1000, 90)
    /\ ret.a.meshScore = 1000
    /\ ret.a.resonance = 10000
    /\ ret.b >= 2000

\* Two strings that are equal after both are lower-cased.
EqualIgnoringCase(s, t) ==
    /\ Len(s) = Len(t)
    /\ \A i \in 1..Len(s) : ToLowerChar(s[i]) = ToLowerChar(t[i])

\* The history holds the pattern, ignoring case.
Collides(pattern, history) ==
    \E i \in 1..Len(history) : EqualIgnoringCase(history[i], pattern)

\* C16: ValidatePattern fails with "not unique" whenever some entry of the
\* history equals the pattern after both are lower-cased, and accepts a
\* pattern of at least 8 characters that equals no entry ignoring case.
PatternUniquenessIgnoresCase ==
    ret.op = "ValidatePattern" =>
        /\ Collides(ret.a, ret.b) => ret.err = PatternNotUnique
        /\ (Len(ret.a) >= MinPatternLength /\ ~Collides(ret.a, ret.b))
               => ret.err = "nil"

\* A pattern of 8 characters refused for an entry that differs from it in
\* case only.
CollisionInOtherCase ==
    /\ ret.op = "ValidatePattern"
    /\ Len(ret.a) = MinPatternLength
    /\ \E i \in 1..Len(ret.b) :
          ret.b[i] # ret.a /\ EqualIgnoringCase(ret.b[i], ret.a)
    /\ ret.err = PatternNotUnique

\* C17 as stated: a pattern whose lower-cased form has fewer than 8
\* characters fails with "too short" whatever the history.
ShortPatternTooShort ==
    (ret.op = "ValidatePattern" /\ Len(ToLower(ret.a)) < MinPatternLength)
        => ret.err = PatternTooShort

\* C17: a pattern whose lower-cased form has fewer than 8 bytes fails: with
\* "not unique" when the history holds it ignoring case, with "too short"
\* otherwise, so always with "too short" on the empty history.
ShortPatternFails ==
    (ret.op = "ValidatePattern" /\ ByteLen(ToLower(ret.a)) < MinPatternLength)
        => ret.err = IF Collides(ret.a, ret.b) THEN PatternNotUnique
                     ELSE PatternTooShort

\* A short pattern that the history holds: reported as not unique.
ShortPatternInHistory ==
    /\ ret.op = "ValidatePattern"
    /\ ret.a # <<>>
    /\ ByteLen(ToLower(ret.a)) < MinPatternLength
    /\ Collides(ret.a, ret.b)
    /\ ret.err = PatternNotUnique

\* C18: the fingerprint GeneratePattern returns has one fixed length, 32
\* characters for the 24 bytes of core/mesh.go and 4 for the 3 bytes of the
\* earlier code, that length is at least MinPatternLength, and
\* ValidatePattern accepts the fingerprint on the empty history.
FingerprintValidates ==
    ret.op \in {"GeneratePattern", "OriginalGeneratePattern"} =>
        LET n == IF ret.op = "GeneratePattern" THEN 32 ELSE 4
        IN /\ Len(ret.b) = n
           /\ n >= MinPatternLength
           /\ ret.err = "nil"

\* C19: AddNode inserts or overwrites by identifier and is idempotent: after
\* net.AddNode(n) the network maps n.ID to n and holds every other entry as
\* before, and adding n once more leaves the network as it is.
AddNodeStoresByID ==
    ret.op = "AddNode" =>
        /\ DOMAIN net = DOMAIN ret.pre \cup {ret.a}
        /\ ret.b.ID = ret.a
        /\ net[ret.a] = ret.b
        /\ \A id \in DOMAIN ret.pre \ {ret.a} : net[id] = ret.pre[id]
        /\ AddNode(net, ret.b) = net

\* AddNode over an entry that was different, beside another entry.
AddNodeOverwrote ==
    /\ ret.op = "AddNode"
    /\ ret.a \in DOMAIN ret.pre
    /\ ret.pre[ret.a] # ret.b
    /\ net[ret.a] = ret.b
    /\ Cardinality(DOMAIN net) = 2

\* C20: the node GenerateMeshNode(metrics) returns is active, its coherence
\* history is the history of the metrics with their coherence appended, its
\* timestamp is that of the metrics, and its identifier is that of no node
\* created before, so adding it overwrites no entry of the network.
GeneratedNodeIsFresh ==
    ret.op = "GenerateMeshNode" =>
        /\ node # <<>>
        /\ node[1].State = "active"
        /\ node[1].CoherenceHistory = Append(ret.b.CoherenceHistory, ret.b.Coherence)
        /\ node[1].Timestamp = ret.b.Timestamp
        /\ node[1].ID = ret.a
        /\ node[1].ID \notin 1..(nextID - 2)
        /\ node[1].ID \notin DOMAIN net
        /\ \A id \in DOMAIN net : AddNode(net, node[1])[id] = net[id]

\* A second node, built from metrics a glyph has modulated (coherence raised
\* to 1.0, timestamp 30), while the first is in the network.
SecondNodeGenerated ==
    /\ ret.op = "GenerateMeshNode"
    /\ DOMAIN net = {1}
    /\ node[1].ID = 2
    /\ node[1].State = "active"
    /\ node[1].CoherenceHistory = <<990, 1000>>
    /\ node[1].Timestamp = 30

\* C21: ValidateAllNodes returns a map whose keys are the identifiers of the
\* network, each value the outcome of ValidateMeshNode on the stored node with
\* resonance 1.0, the "trust" glyph of intensity and ethics score 1.0 at the
\* node's timestamp and the mesh score of the fixed metrics (0.914), nil on
\* success; the network is as it was.
ValidateAllNodesReportsEachNode ==
    ret.op = "ValidateAllNodes" =>
        /\ DOMAIN ret.errs = DOMAIN net
        /\ \A id \in DOMAIN net :
              ret.errs[id] =
                  ValidateMeshNode(net[id], 1000,
                                   LyraGlyph(Trust, 1000, 1000, net[id].Timestamp), 914)
        /\ net = ret.pre

\* Two nodes validated, one accepted and one refused.
AcceptedAndRefusedReported ==
    /\ ret.op = "ValidateAllNodes"
    /\ Cardinality(DOMAIN net) = 2
    /\ \E i, j \in DOMAIN ret.errs : ret.errs[i] = "nil" /\ ret.errs[j] # "nil"

\* C22: UpdateCoherenceHistory(&node, value) lengthens the node's history by
\* one with value last, sets the coherence of its metrics to value and leaves
\* its identifier, state, pattern and timestamp as they were; on a snapshot
\* read from the network it leaves the stored nodes as a reader sees them.
SnapshotUpdateIsLocal ==
    ret.op = "UpdateCoherenceHistory" =>
        /\ View(heap, node[ret.a]) = UpdateCoherenceHistory(ret.b.node, ret.b.value)
        /\ ViewNet(heap, net) = ret.b.net

\* C23: for all arguments of ComputeQRE each of the five normalized factors
\* lies in [0.1, 1.0], their sum in [0.5, 5.0] and the score in
\* [log2(1.5), log2(6)] = [0.585, 2.585]; raising a factor to 1.0 does not
\* lower the score.
QREFactorsInRange ==
    ret.op = "ComputeQRE" =>
        /\ \A i \in 1..5 :
              /\ ret.b.factors[i].class = "number"
              /\ ret.b.factors[i].v >= 100 /\ ret.b.factors[i].v <= 1000
        /\ ret.b.sum.class = "number"
        /\ ret.b.sum.v >= 500 /\ ret.b.sum.v <= 5000
        /\ ret.b.score.class = "number"
        /\ ret.b.score.v >= 585 /\ ret.b.score.v <= 2585
        /\ \A i \in 1..5 :
              LET raised == QREScore([ret.b.factors EXCEPT ![i] = Num(1000)])
              IN raised.class = "number" /\ raised.v >= ret.b.score.v

RevokeNodeFrame ==
    ret.op = "RevokeNode" =>
        /\ \A reason \in Reasons : net = RevokeNode(ret.pre, ret.a, reason)
        /\ ret.a \notin DOMAIN ret.pre => net = ret.pre
        /\ ret.a \in DOMAIN ret.pre =>
              /\ DOMAIN net = DOMAIN ret.pre
              /\ \A id \in DOMAIN net \ {ret.a} : net[id] = ret.pre[id]
              /\ [net[ret.a] EXCEPT !.State = ret.pre[ret.a].State,
                                    !.Pattern = ret.pre[ret.a].Pattern]
                    = ret.pre[ret.a]

\* RevokeNode has returned for an identifier the network does not hold, the
\* network holding a node revoked before and an active one.
RevokeNodeOnAbsentID ==
    /\ ret.op = "RevokeNode"
    /\ ret.a \notin DOMAIN net
    /\ \E id \in DOMAIN net : net[id].State = "revoked" /\ HasSuffix(net[id].Pattern, RevokedSuffix)
    /\ \E id \in DOMAIN net : net[id].State = "active"

\* C26: a PropagateMetrics between two present identifiers that returned a
\* validation error has nevertheless stored the destination with the source's
\* coherence appended to the history of its metrics and with the mean of the
\* two validation scores.
PropagateMetricsCommitsBeforeValidating ==
    (/\ ret.op = "PropagateMetrics"
     /\ ret.a \in DOMAIN ret.pre /\ ret.b \in DOMAIN ret.pre
     /\ ret.err \in {"CoherenceTooLow", "NodeNotActive", "SecurityGateFailed"}) =>
        /\ net[ret.b].Metrics.CoherenceHistory =
               Append(ret.pre[ret.b].Metrics.CoherenceHistory,
                      ret.pre[ret.a].Metrics.Coherence)
        /\ net[ret.b].Metrics.ValidationScore =
               RoundDiv(ret.pre[ret.b].Metrics.ValidationScore
                            + ret.pre[ret.a].Metrics.ValidationScore, 2)

\* A propagation onto a revoked destination has returned its error.
PropagatedOntoRevoked ==
    /\ ret.op = "PropagateMetrics"
    /\ ret.a \in DOMAIN ret.pre /\ ret.b \in DOMAIN ret.pre /\ ret.a # ret.b
    /\ ret.err = "NodeNotActive"
    /\ Len(net[ret.b].Metrics.CoherenceHistory)
           = Len(ret.pre[ret.b].Metrics.CoherenceHistory) + 1

\* C27: after PropagateMetrics every node other than the destination reads
\* as it did before the call.
PropagateMetricsKeepsOtherNodes ==
    ret.op = "PropagateMetrics" =>
        \A id \in DOMAIN net \ {ret.b} : View(heap, net[id]) = ret.pre[id]

\* C28: every stored node is revoked exactly when its pattern ends with
\* ":revoked".
RevokedIffSuffix ==
    \A id \in DOMAIN net :
        net[id].State = "revoked" <=> HasSuffix(net[id].Pattern, RevokedSuffix)

\* AddNode has put an active snapshot over a revoked node, beside a node that
\* is revoked.
ActiveSnapshotOverRevoked ==
    /\ ret.op = "AddNode"
    /\ ret.a \in DOMAIN ret.pre
    /\ ret.pre[ret.a].State = "revoked"
    /\ net[ret.a].State = "active"
    /\ \E id \in DOMAIN net : net[id].State = "revoked"

\* C29: a QALXGenerateSecureKey refused for its coherence leaves the entropy
\* pool as it was; one that returns a key leaves the 64-byte digest of the
\* pool it was entered with, the harvested buffer and the buffer xored with
\* the bias, and its key is the one amplified from that digest and the
\* arguments; a pool of 64 bytes stays one of 64 bytes, so the pool has its
\* EntropyPoolSize bytes only while no key has been returned.
DeriveKeyPoolEffect ==
    /\ entropyPool.size \in {EntropyPoolSize, 64}
    /\ ret.op = "QALXGenerateSecureKey" =>
          LET harvested == harvestQuantumEntropy(ret.a.metrics)
              bias == ToByte(Mul(Mul(ret.a.glyph.Intensity, ret.a.glyph.EthicsScore),
                                 ret.a.meshScore) * 128)
              biased == [i \in 1..32 |-> Xor(harvested[i], bias)]
          IN /\ ret.err = "ErrInsufficientCoherence" => entropyPool = ret.pool
             /\ ret.err = "nil" =>
                   /\ entropyPool = [size |-> 64, val |-> <<ret.pool, harvested, biased>>]
                   /\ ret.b = amplifyQuantumKey(entropyPool, ret.a.metrics, ret.a.glyph).key
                   /\ entropyPool.size # EntropyPoolSize
             /\ ret.pool.size = 64 => entropyPool.size = 64

\* A key has been returned from a pool that was a digest already.
KeyFromDigestPool ==
    /\ ret.op = "QALXGenerateSecureKey"
    /\ ret.pool.size = 64
    /\ ret.err = "nil"
    /\ ret.b.size = 64
    /\ entropyPool # ret.pool

\* C30: after RevokeNode the node stored under the identifier is revoked, and
\* after PropagateRevocation every node stored under another identifier is;
\* a stored node that is revoked stays stored and revoked through every call
\* but an AddNode with its identifier; ValidateAllNodes reports an error for
\* every revoked node, and PropagateMetrics onto a revoked node returns one.
RevocationVisibleToValidation ==
    /\ [](/\ (ret.op = "RevokeNode" /\ ret.a \in DOMAIN ret.pre) =>
                 (ret.a \in DOMAIN net /\ net[ret.a].State = "revoked")
          /\ ret.op = "PropagateRevocation" =>
                 \A id \in DOMAIN ret.pre \ {ret.a} :
                     id \in DOMAIN net /\ net[id].State = "revoked"
          /\ ret.op = "ValidateAllNodes" =>
                 \A id \in DOMAIN net :
                     net[id].State = "revoked" =>
                         (id \in DOMAIN ret.errs /\ ret.errs[id] # "nil")
          /\ (/\ ret.op = "PropagateMetrics"
              /\ ret.b \in DOMAIN ret.pre
              /\ ret.pre[ret.b].State = "revoked") => ret.err # "nil")
    /\ [][\A id \in DOMAIN net :
              (net[id].State = "revoked" /\ ~(ret'.op = "AddNode" /\ ret'.a = id)) =>
                  (id \in DOMAIN net' /\ net'[id].State = "revoked")]_vars

\* ValidateAllNodes has reported a revoked node that a propagation reached,
\* beside a node it accepts.
RevokedNodeReported ==
    /\ ret.op = "ValidateAllNodes"
    /\ \E id \in DOMAIN net :
          /\ net[id].State = "revoked"
          /\ ret.errs[id] = "NodeNotActive"
          /\ Len(net[id].Metrics.CoherenceHistory) > 1
    /\ \E id \in DOMAIN net : ret.errs[id] = "nil"

\* C31: after QALXValidateQuantumSecurity the caller's glyph and metrics, and
\* after ValidateMeshNode the caller's glyph and node, are the ones passed,
\* the ethics score of a "trust" glyph included; the network is as it was;
\* and a call with the arguments of the call before returns what that one
\* returned.
ValidationIsReadOnly ==
    /\ ret.op = "QALXValidateQuantumSecurity" =>
          /\ ret.errs.glyph = ret.a.glyph
          /\ ret.errs.metrics = ret.a.metrics
          /\ net = ret.pre
          /\ ret.errs.before # <<>> => ret.errs.before[1] = ret.b
    /\ ret.op = "ValidateMeshNode" =>
          /\ ret.errs.glyph = ret.a.glyph
          /\ node = <<ret.a.node>>
          /\ net = ret.pre
          /\ ret.errs.before # <<>> => ret.errs.before[1] = ret.b

\* A node read from the network has been validated twice in a row with one
\* "trust" glyph and accepted.
TrustGlyphValidatedTwice ==
    /\ ret.op = "ValidateMeshNode"
    /\ ret.errs.before # <<>>
    /\ ret.a.glyph.Emotion = Trust
    /\ ret.b = "nil"
    /\ ret.a.node.ID \in DOMAIN net

\* C32: for all inputs CalculateMeshScore returns a score in [0.07, 0.97],
\* below DefaultMeshScore; for the literal of PropagateMetrics and
\* ValidateAllNodes it returns 0.914.
MeshScoreInRange ==
    ret.op = "CalculateMeshScore" =>
        /\ ret.b.class = "number"
        /\ ret.b.v >= 70 /\ ret.b.v <= 970
        /\ ret.b.v < DefaultMeshScore
        /\ ret.a = FixedMeshMetricsOnFloats => ret.b.v = 914
=============================================================================
